---------------------------- MODULE Spec2Model ----------------------------
(***************************************************************************)
(* Model of the transform core of prezentare_wavelet: the JPEG-style       *)
(* quantization tables and block DCT of src/dct.py, the Mallat wavelet     *)
(* decomposition / reconstruction of src/wavelets.py and the thresholding  *)
(* and noise estimation of src/denoising.py and backend/main.py.           *)
(*                                                                         *)
(* Numbers.  Sample and coefficient values are exact fixed-point numbers:  *)
(* the integer n stands for the real n / Scale.  The 2-D Haar filter bank  *)
(* and the 2-D orthonormal DCT of size 1 and 2 only divide by 2, so they   *)
(* are exact in this representation.  Filter banks with irrational taps    *)
(* (db4, bior2.2, bior4.4) are modelled by the shapes of their arrays; the *)
(* entries of such arrays are the value Unknown.  NaN is the IEEE          *)
(* not-a-number that numpy produces for 0/0.  Both are integers far        *)
(* outside the range of any sample or coefficient.                         *)
(***************************************************************************)
EXTENDS Integers, Sequences, FiniteSets, TLC

VARIABLES
    op,         \* the call that produced the current outputs, "idle" before any
    err,        \* the exception the call raised, "none" when it returned
    quality,    \* quantizer: the quality argument
    block_size, \* quantizer / block DCT: the block_size argument
    qcoeffs,    \* quantizer: the caller's coefficient grid
    Q,          \* quantizer: the local table Q of the last call
    qresult,    \* quantizer: the grid quantize_dct returned
    dqresult,   \* quantizer: the grid dequantize_dct returned
    image,      \* transforms: the caller's sample grid
    wavelet,    \* wavelet transform: the wavelet argument
    level,      \* wavelet transform: the level / levels argument
    pyr,        \* the list of WaveletCoeffs DWT2D returned
    coeffs,     \* the PyWavelets list [LL, (LH, HL, HH), ...] of wavedec2
    threshold,  \* thresholding: the threshold argument
    mode,       \* thresholding: the mode argument
    tcoeffs,    \* thresholding: the list threshold_coeffs returned
    sigma,      \* noise estimate, the fraction <<numerator, denominator>>
    recon,      \* the grid a reconstruction returned
    dctc,       \* block DCT: the coefficient grid block_dct returned
    method,     \* denoising: the threshold_method argument
    thr,        \* denoising: what compute_threshold returned, [sigma, n, tenths]
    sigma_hh,   \* denoising: the HH array the noise estimate was taken from
    denoised,   \* denoising: the 'denoised' entry of the returned dictionary
    ma,         \* metrics: the first operand
    mb,         \* metrics: the second operand
    mres,       \* metrics: the value returned, [kind, num, den]
    keep_levels \* reconstruct handler: the keep_levels argument

qvars == <<quality, block_size, qcoeffs, Q, qresult, dqresult>>

wvars == <<image, wavelet, level, pyr, coeffs, threshold, mode, tcoeffs, sigma, recon>>

dvars == <<dctc>>

nvars == <<method, thr, sigma_hh, denoised>>

mvars == <<ma, mb, mres>>

rvars == <<keep_levels>>

vars == <<op, err, qvars, wvars, dvars, nvars, mvars, rvars>>

----------------------------------------------------------------------------
(* Bounds of the model *)

\* qualities from 1 - QualitySlack to 100 + QualitySlack are passed in
QualitySlack == 3

\* coefficient grids handed to the quantizer are CoeffGrid(h, w, s), s \in 0..MaxCoefSeed
MaxCoefSeed == 2

\* sample grids are at most MaxDim x MaxDim
MaxDim == 5

\* sample grids are ImageOf(h, w, s), s \in 0..MaxImageSeed
MaxImageSeed == 2

\* decomposition levels up to MaxLevel are requested
MaxLevel == 2

\* what a variable holds when the call returned nothing
NoResult == << >>

\* None, the LL of every WaveletCoeffs but the first
None == << >>

\* IEEE not-a-number, and an entry whose value the model does not represent
NaN == 1000000007

Unknown == 1000000009

\* the integer n stands for the real number n / Scale
Scale == 4 ^ MaxLevel

----------------------------------------------------------------------------
(* Arithmetic helpers *)

Abs(x) == IF x < 0 THEN -x ELSE x

Min(a, b) == IF a <= b THEN a ELSE b

Max(a, b) == IF a >= b THEN a ELSE b

\* np.floor(n / d) for integers n and d # 0
FloorDiv(n, d) == IF d > 0 THEN n \div d ELSE (-n) \div (-d)

\* np.clip(x, lo, hi)
Clip(x, lo, hi) == Max(lo, Min(hi, x))

\* np.round(n / d) for d > 0: nearest integer, ties to the even one
RoundHalfEven(n, d) ==
    LET f == n \div d
        r == n - f * d
    IN  IF 2 * r < d THEN f
        ELSE IF 2 * r > d THEN f + 1
        ELSE IF f % 2 = 0 THEN f ELSE f + 1

Rows(m) == Len(m)

Cols(m) == IF Len(m) = 0 THEN 0 ELSE Len(m[1])

----------------------------------------------------------------------------
(* dct.py: quantization table *)

\* the standard JPEG luminance table of quantize_dct and dequantize_dct
Q50 ==
    << <<16, 11, 10, 16, 24, 40, 51, 61>>,
       <<12, 12, 14, 19, 26, 58, 60, 55>>,
       <<14, 13, 16, 24, 40, 57, 69, 56>>,
       <<14, 17, 22, 29, 51, 87, 80, 62>>,
       <<18, 22, 37, 56, 68, 109, 103, 77>>,
       <<24, 35, 55, 64, 81, 104, 113, 92>>,
       <<49, 64, 78, 87, 103, 121, 120, 101>>,
       <<72, 92, 95, 98, 112, 100, 103, 99>> >>

\* QualityScale with 5000 // quality, the integer division, in place of 5000 / quality
QualityScaleIntDiv(q) == IF q < 50 THEN <<5000 \div q, 1>> ELSE <<200 - 2 * q, 1>>

\* QualityScale with 200 - quality in place of 200 - 2 * quality
QualityScaleSlip(q) == IF q < 50 THEN <<5000, q>> ELSE <<200 - q, 1>>

\* scale as the fraction <<numerator, denominator>>: 5000 / quality is a true
\* division, 200 - 2 * quality an integer.  quality = 0 raises before this.
QualityScale(q) == IF q < 50 THEN <<5000, q>> ELSE <<200 - 2 * q, 1>>

\* one entry of np.clip(np.floor((Q50 * scale + 50) / 100), 1, 255)
QEntry(base, q) ==
    LET s == QualityScale(q)
    IN  Clip(FloorDiv(base * s[1] + 50 * s[2], 100 * s[2]), 1, 255)

\* the whole table Q for a quality # 0
QuantTable(q) == [i \in 1..8 |-> [j \in 1..8 |-> QEntry(Q50[i][j], q)]]

\* a cast that keeps only the low 8 bits, signed (np.int8)
ToInt8(x) == ((x + 128) % 256) - 128

\* np.ndarray.astype(np.int16) of an integral value: the low 16 bits, signed
ToInt16(x) == ((x + 32768) % 65536) - 32768

\* block / Q and block * Q broadcast only for block_size x block_size = 8 x 8
BroadcastOk(bs) == bs = 8

\* the table entry under position (i, j) of a grid cut into 8 x 8 blocks
QAt(tab, i, j) == tab[((i - 1) % 8) + 1][((j - 1) % 8) + 1]

\* quantize_dct(coeffs, quality, block_size): [err, Q, result].  Zero padding
\* to a multiple of block_size and the crop back to h x w leave positions
\* (i, j) of the input under table entry (i mod 8, j mod 8).
quantize_dct(grid, q, bs) ==
    IF q = 0 THEN [err |-> "ZeroDivisionError", Q |-> NoResult, result |-> NoResult]
    ELSE IF ~BroadcastOk(bs)
         THEN [err |-> "ValueError", Q |-> QuantTable(q), result |-> NoResult]
    ELSE LET tab == QuantTable(q)
         IN  [err |-> "none", Q |-> tab,
              result |-> [i \in 1..Rows(grid) |-> [j \in 1..Cols(grid) |->
                            ToInt16(RoundHalfEven(grid[i][j], QAt(tab, i, j)))]]]

\* dequantize_dct(quantized, quality, block_size): [err, Q, result]
dequantize_dct(quantized, q, bs) ==
    IF q = 0 THEN [err |-> "ZeroDivisionError", Q |-> NoResult, result |-> NoResult]
    ELSE IF ~BroadcastOk(bs)
         THEN [err |-> "ValueError", Q |-> QuantTable(q), result |-> NoResult]
    ELSE LET tab == QuantTable(q)
         IN  [err |-> "none", Q |-> tab,
              result |-> [i \in 1..Rows(quantized) |-> [j \in 1..Cols(quantized) |->
                            quantized[i][j] * QAt(tab, i, j)]]]

\* the coefficient grids passed in: h x w integers, some exactly half way
\* between two multiples of a table entry
CoeffGrid(h, w, s) == [i \in 1..h |-> [j \in 1..w |-> s * (8 * i + 40 * j - 53)]]

QGridShapes == {<<1, 1>>, <<2, 2>>, <<1, 9>>}

Qualities == (1 - QualitySlack)..(100 + QualitySlack)

QBlockSizes == {2, 8}

\* the variables of the wavelet transforms while other components run
WaveletIdle ==
    /\ image = NoResult
    /\ wavelet = ""
    /\ level = 0
    /\ pyr = NoResult
    /\ coeffs = NoResult
    /\ threshold = 0
    /\ mode = ""
    /\ tcoeffs = NoResult
    /\ sigma = NoResult
    /\ recon = NoResult

\* the variables of wavelet_denoise while other components run
DenoiseIdle ==
    /\ method = ""
    /\ thr = NoResult
    /\ sigma_hh = NoResult
    /\ denoised = NoResult

\* the variables of the metrics while other components run
MetricsIdle ==
    /\ ma = NoResult
    /\ mb = NoResult
    /\ mres = NoResult

InitQuant ==
    /\ op = "idle"
    /\ err = "none"
    /\ keep_levels = 0
    /\ quality \in Qualities
    /\ block_size \in QBlockSizes
    /\ \E sh \in QGridShapes, s \in 0..MaxCoefSeed : qcoeffs = CoeffGrid(sh[1], sh[2], s)
    /\ Q = NoResult
    /\ qresult = NoResult
    /\ dqresult = NoResult
    /\ WaveletIdle
    /\ dctc = NoResult
    /\ DenoiseIdle
    /\ MetricsIdle

\* an in-place write through an alias of the caller's array: the level shift
\* of the samples lands in the argument
CallerArrayShifted(x) == [i \in 1..Rows(x) |-> [j \in 1..Cols(x) |-> x[i][j] - 128]]

\* the caller's array once a transform has run: the first statement of every
\* transform, arg.astype(np.float64), copies the argument, and each later
\* statement writes to the copy or to an array the transform allocated
CallerArray(x) == x

\* a call of quantize_dct on the caller's grid
QuantizeStep ==
    /\ op = "idle"
    /\ LET r == quantize_dct(qcoeffs, quality, block_size)
       IN  /\ err' = r.err
           /\ Q' = r.Q
           /\ qresult' = r.result
    /\ op' = "quantize_dct"
    /\ qcoeffs' = CallerArray(qcoeffs)
    /\ UNCHANGED <<rvars, quality, block_size, dqresult, wvars, dvars, nvars, mvars>>

\* a call of dequantize_dct on what quantize_dct returned, or on the caller's
\* grid when quantize_dct has not run
DequantizeStep ==
    /\ \/ op = "idle"
       \/ op = "quantize_dct" /\ err = "none"
    /\ LET r == dequantize_dct(IF op = "idle" THEN qcoeffs ELSE qresult,
                               quality, block_size)
       IN  /\ err' = r.err
           /\ Q' = r.Q
           /\ dqresult' = r.result
    /\ op' = "dequantize_dct"
    /\ UNCHANGED <<rvars, quality, block_size, qcoeffs, qresult, wvars, dvars, nvars, mvars>>

NextQuant == QuantizeStep \/ DequantizeStep

SpecQuant == InitQuant /\ [][NextQuant]_vars

----------------------------------------------------------------------------
(* Claims about the quantization table *)

TableBuilt == op \in {"quantize_dct", "dequantize_dct"} /\ Q # NoResult

\* v = clamp(floor(n / d), 1, 255) for d > 0, stated without computing the floor
IsClampedFloor(v, n, d) ==
    /\ v \in 1..255
    /\ v > 1 => d * v <= n
    /\ v < 255 => n < d * (v + 1)

\* C4: for every quality in 1..100 each entry of the table is
\* clamp(floor((base * scale + 50) / 100), 1, 255) with scale = 5000 / quality
\* below 50 and 200 - 2 * quality from 50 on; so every entry is an integer in
\* 1..255, the table at quality 50 is the base table, and entry [0][0] at
\* quality 1 is larger than at quality 100.
C4_TableFormula ==
    (TableBuilt /\ quality \in 1..100) =>
        /\ \A i \in 1..8, j \in 1..8 :
              IF quality < 50
              THEN IsClampedFloor(Q[i][j], 5000 * Q50[i][j] + 50 * quality, 100 * quality)
              ELSE IsClampedFloor(Q[i][j], Q50[i][j] * (200 - 2 * quality) + 50, 100)
        /\ quality = 50 => Q = Q50
        /\ quality = 1 => Q[1][1] > QuantTable(100)[1][1]

\* quantize_dct returned at quality 49, where the entry over base 40 is 41
C4_Witness ==
    op = "quantize_dct" /\ err = "none" /\ quality = 49 /\ Q[1][6] = 41 /\ Q50[1][6] = 40

\* C5: the table is monotonic in quality: the divisor built at quality q1 is
\* at least the divisor built at any higher quality q2 <= 100, at every
\* position, also across the change of formula at 50.
C5_TableMonotonic ==
    (TableBuilt /\ quality \in 1..100) =>
        \A q2 \in (quality + 1)..100 :
            LET hi == QuantTable(q2)
            IN  \A i \in 1..8, j \in 1..8 : Q[i][j] >= hi[i][j]

\* a table built just below the change of formula, strictly above the one at 50
C5_Witness ==
    TableBuilt /\ quality = 49 /\ Q[1][6] > QuantTable(50)[1][6]

\* C6: a quality outside 1..100 makes quantize_dct and dequantize_dct fail
\* before any output is produced: no table and no grid is returned.
C6_InvalidQualityFails ==
    (op \in {"quantize_dct", "dequantize_dct"} /\ quality \notin 1..100) =>
        /\ err # "none"
        /\ qresult = NoResult
        /\ dqresult = NoResult

----------------------------------------------------------------------------
(* wavelets.py: the PyWavelets filter banks behind DWT2D and IDWT2D *)

\* dec_len of the wavelets PyWavelets knows, 0 for a name it does not know
\* ('5/3' and '9/7' are keys of WAVELET_CONFIGS, not PyWavelets names)
FilterLen(w) ==
    CASE w = "haar" -> 2
      [] w = "bior2.2" -> 6
      [] w = "db4" -> 8
      [] w = "sym4" -> 8
      [] w = "bior4.4" -> 10
      [] OTHER -> 0

KnownWavelet(w) == FilterLen(w) # 0

\* length of one axis after a dwt in symmetric mode (pywt.dwt_coeff_len)
DwtCoeffLen(n, F) == (n + F - 1) \div 2

\* length of one axis after an idwt of m coefficients
IdwtLen(m, F) == 2 * m - F + 2

\* image.astype(np.float64), in the fixed-point representation
Fixed(img) == [i \in 1..Rows(img) |-> [j \in 1..Cols(img) |-> img[i][j] * Scale]]

UnknownGrid(h, w) == [i \in 1..h |-> [j \in 1..w |-> Unknown]]

\* (a + sb * b + sc * c + sd * d) / 2 in floating point: NaN spreads
Butterfly(a, b, c, d, sb, sc, sd) ==
    IF Unknown \in {a, b, c, d} THEN Unknown
    ELSE IF NaN \in {a, b, c, d} THEN NaN
    ELSE (a + sb * b + sc * c + sd * d) \div 2

\* x[i][j] under the symmetric extension of the Haar filter: the edge sample
\* is repeated once past the end of an odd axis
SymAt(x, i, j) == x[Min(i, Rows(x))][Min(j, Cols(x))]

\* one subband of the 2-D Haar analysis step
HaarBand(x, sb, sc, sd) ==
    [p \in 1..DwtCoeffLen(Rows(x), 2) |-> [q \in 1..DwtCoeffLen(Cols(x), 2) |->
        Butterfly(SymAt(x, 2 * p - 1, 2 * q - 1), SymAt(x, 2 * p - 1, 2 * q),
                  SymAt(x, 2 * p, 2 * q - 1), SymAt(x, 2 * p, 2 * q), sb, sc, sd)]]

\* pywt.dwt2(x, w): the approximation a and the details d = (cH, cV, cD)
dwt2(x, w) ==
    IF w = "haar"
    THEN [a |-> HaarBand(x, 1, 1, 1),
          d |-> <<HaarBand(x, 1, -1, -1), HaarBand(x, -1, 1, -1), HaarBand(x, -1, -1, 1)>>]
    ELSE LET g == UnknownGrid(DwtCoeffLen(Rows(x), FilterLen(w)),
                              DwtCoeffLen(Cols(x), FilterLen(w)))
         IN  [a |-> g, d |-> <<g, g, g>>]

\* pywt.idwt2((a, d), w) for subbands of one shape
idwt2(a, d, w) ==
    IF w = "haar"
    THEN [i \in 1..IdwtLen(Rows(a), 2) |-> [j \in 1..IdwtLen(Cols(a), 2) |->
            LET p == (i + 1) \div 2
                q == (j + 1) \div 2
                sv == IF i % 2 = 1 THEN 1 ELSE -1
                sh == IF j % 2 = 1 THEN 1 ELSE -1
            IN  Butterfly(a[p][q], d[1][p][q], d[2][p][q], d[3][p][q], sv, sh, sv * sh)]]
    ELSE UnknownGrid(IdwtLen(Rows(a), FilterLen(w)), IdwtLen(Cols(a), FilterLen(w)))

\* the loop of wavedec2: n analysis steps, [aN, dN, ..., d1]
RECURSIVE WavedecLoop(_, _, _)
WavedecLoop(a, w, n) ==
    IF n = 0 THEN <<a>>
    ELSE LET r == dwt2(a, w) IN Append(WavedecLoop(r.a, w, n - 1), r.d)

\* pywt.wavedec2(img, w, level=lev): an unknown wavelet name and a negative
\* level raise ValueError; a level above dwt_max_level only warns
wavedec2(img, w, lev) ==
    IF ~KnownWavelet(w) \/ lev < 0
    THEN [err |-> "ValueError", coeffs |-> NoResult]
    ELSE [err |-> "none", coeffs |-> WavedecLoop(Fixed(img), w, lev)]

\* waverec2 drops the last row / column of the approximation when it is one
\* longer than the next details
TrimTo(a, d) ==
    LET h == IF Rows(a) = Rows(d) + 1 THEN Rows(a) - 1 ELSE Rows(a)
        n == IF Cols(a) = Cols(d) + 1 THEN Cols(a) - 1 ELSE Cols(a)
    IN  [i \in 1..h |-> [j \in 1..n |-> a[i][j]]]

SameShape(a, b) == Rows(a) = Rows(b) /\ Cols(a) = Cols(b)

\* the loop of waverec2 from the detail triple at index k on: idwt2 raises
\* ValueError for subbands of different shapes, and for subbands too short
\* for the filter (an output length below 1)
RECURSIVE WaverecLoop(_, _, _, _)
WaverecLoop(a, cs, k, w) ==
    IF k > Len(cs) THEN [err |-> "none", result |-> a]
    ELSE LET t == TrimTo(a, cs[k][1])
         IN  IF ~SameShape(t, cs[k][1])
             THEN [err |-> "ValueError", result |-> NoResult]
             ELSE IF IdwtLen(Rows(t), FilterLen(w)) < 1 \/ IdwtLen(Cols(t), FilterLen(w)) < 1
                  THEN [err |-> "ValueError", result |-> NoResult]
                  ELSE WaverecLoop(idwt2(t, cs[k], w), cs, k + 1, w)

\* pywt.waverec2(cs, w): a list of one entry is returned as its entry, the
\* wavelet is looked up only by the idwt2 of the first detail triple
waverec2(cs, w) ==
    IF Len(cs) < 1 THEN [err |-> "ValueError", result |-> NoResult]
    ELSE IF Len(cs) = 1 THEN [err |-> "none", result |-> cs[1]]
    ELSE IF ~KnownWavelet(w) THEN [err |-> "ValueError", result |-> NoResult]
    ELSE WaverecLoop(cs[1], cs, 2, w)

\* DWT2D(image, wavelet, level): one WaveletCoeffs per detail triple of
\* wavedec2, in the order of wavedec2, the final LL stored in the first
DWT2D(img, w, lev) ==
    LET r == wavedec2(img, w, lev)
    IN  IF r.err # "none" THEN [err |-> r.err, result |-> NoResult]
        ELSE [err |-> "none",
              result |-> [i \in 1..(Len(r.coeffs) - 1) |->
                            [LL |-> IF i = 1 THEN r.coeffs[1] ELSE None,
                             LH |-> r.coeffs[i + 1][1],
                             HL |-> r.coeffs[i + 1][2],
                             HH |-> r.coeffs[i + 1][3]]]]

\* the list of IDWT2D with the detail triples appended in reverse order
pywt_coeffs_reversed(p) ==
    <<p[1].LL>> \o [i \in 1..Len(p) |->
                      <<p[Len(p) + 1 - i].LH, p[Len(p) + 1 - i].HL, p[Len(p) + 1 - i].HH>>]

\* pywt_coeffs of IDWT2D: [coeffs[0].LL] followed by (c.LH, c.HL, c.HH) for
\* every c of the list
pywt_coeffs(p) == <<p[1].LL>> \o [i \in 1..Len(p) |-> <<p[i].LH, p[i].HL, p[i].HH>>]

\* IDWT2D(coeffs, wavelet): coeffs[0] of an empty list raises IndexError
IDWT2D(p, w) ==
    IF Len(p) = 0 THEN [err |-> "IndexError", result |-> NoResult]
    ELSE waverec2(pywt_coeffs(p), w)

\* create_subband_composite(coeffs): np.hstack and np.vstack need the quad
\* built so far to have the shape of the next details
RECURSIVE CompositeOk(_, _, _, _)
CompositeOk(cs, k, h, n) ==
    \/ k > Len(cs)
    \/ /\ Rows(cs[k][1]) = h
       /\ Cols(cs[k][1]) = n
       /\ CompositeOk(cs, k + 1, 2 * h, 2 * n)

\* mallat_decompose(image, wavelet, levels): the coefficients of wavedec2,
\* or the ValueError of the composite
mallat_decompose(img, w, lev) ==
    LET r == wavedec2(img, w, lev)
    IN  IF r.err # "none" THEN r
        ELSE IF ~CompositeOk(r.coeffs, 2, Rows(r.coeffs[1]), Cols(r.coeffs[1]))
             THEN [err |-> "ValueError", coeffs |-> NoResult]
             ELSE r

----------------------------------------------------------------------------
(* denoising.py and backend/main.py: thresholding and noise estimation *)

\* soft thresholding with the comparison turned round: the coefficients at
\* or above the threshold are the ones zeroed
SoftThresholdInverted(c, t) ==
    IF c = Unknown \/ t = Unknown THEN Unknown
    ELSE IF c = NaN \/ t = NaN THEN NaN
    ELSE IF c = 0 /\ t <= 0 THEN NaN
    ELSE IF Abs(c) >= t THEN 0
    ELSE IF c > 0 THEN c - t ELSE c + t

\* pywt.threshold(c, t, mode='soft'): c * max(1 - t / |c|, 0).  At c = 0
\* the quotient t / 0 is NaN for t = 0, -inf for t < 0 and +inf for t > 0,
\* and 0 * NaN = 0 * inf = NaN, 0 * max(-inf, 0) = 0
SoftThreshold(c, t) ==
    IF c = Unknown \/ t = Unknown THEN Unknown
    ELSE IF c = NaN \/ t = NaN THEN NaN
    ELSE IF c = 0 /\ t <= 0 THEN NaN
    ELSE IF Abs(c) <= t THEN 0
    ELSE IF c > 0 THEN c - t ELSE c + t

\* pywt.threshold(c, t, mode='hard'): np.where(|c| < t, 0, c).  The
\* coefficient is the float the transform computed, a few ulps off the value
\* carried here: where the carried magnitude equals t, the comparison goes
\* the way of the float, below t (low) or not
HardThreshold(c, t, low) ==
    IF c = Unknown \/ t = Unknown THEN Unknown
    ELSE IF c = NaN THEN NaN
    ELSE IF t = NaN THEN c
    ELSE IF Abs(c) < t \/ (Abs(c) = t /\ t > 0 /\ low) THEN 0 ELSE c

\* the branch of threshold_coeffs: 'soft', and everything else as 'hard';
\* low holds the positions <<i, j>> whose float lies below its carried value
ThresholdBand(m, t, md, low) ==
    [i \in 1..Rows(m) |-> [j \in 1..Cols(m) |->
        IF md = "soft" THEN SoftThreshold(m[i][j], t)
        ELSE HardThreshold(m[i][j], t, <<i, j>> \in low)]]

\* the positions <<i, j>> of the subband b of the entry k among the
\* positions <<k, b, i, j>> of low
BandOf(low, k, b) == {<<p[3], p[4]>> : p \in {q \in low : q[1] = k /\ q[2] = b}}

\* threshold_coeffs written so that it stores the thresholded triples into
\* the list it was given
threshold_coeffs_inplace(cs, t, md, low) ==
    LET out == [k \in 1..Len(cs) |->
                  IF k = 1 THEN cs[1]
                  ELSE <<ThresholdBand(cs[k][1], t, md, BandOf(low, k, 1)),
                         ThresholdBand(cs[k][2], t, md, BandOf(low, k, 2)),
                         ThresholdBand(cs[k][3], t, md, BandOf(low, k, 3))>>]
    IN  [input |-> out, result |-> out]

\* threshold_coeffs(coeffs, threshold, mode): the list it returns, and the
\* caller's list as it is after the call
threshold_coeffs(cs, t, md, low) ==
    [input |-> cs,
     result |-> [k \in 1..Len(cs) |->
                   IF k = 1 THEN cs[1]
                   ELSE <<ThresholdBand(cs[k][1], t, md, BandOf(low, k, 1)),
                          ThresholdBand(cs[k][2], t, md, BandOf(low, k, 2)),
                          ThresholdBand(cs[k][3], t, md, BandOf(low, k, 3))>>]]

\* the positions <<k, b, i, j>> of the detail coefficients of a list
DetailPositions(cs) ==
    UNION {UNION {{<<k, b, i, j>> : i \in 1..Rows(cs[k][b]), j \in 1..Cols(cs[k][b])} :
                    b \in 1..3} : k \in 2..Len(cs)}

\* the detail coefficients whose carried magnitude equals the threshold t > 0
Ties(cs, t) ==
    IF t \in {0, NaN, Unknown} THEN {}
    ELSE {p \in DetailPositions(cs) :
            /\ cs[p[1]][p[2]][p[3]][p[4]] \notin {NaN, Unknown}
            /\ Abs(cs[p[1]][p[2]][p[3]][p[4]]) = t}

\* the ways the comparisons of a hard thresholding at t can go: every set of
\* tied coefficients may lie below t; soft thresholding gives 0 either way
LowChoices(cs, t, md) ==
    IF md = "soft" THEN {{}} ELSE SUBSET Ties(cs, t)

\* the entries of a grid, row after row
Flatten(m) == [k \in 1..(Rows(m) * Cols(m)) |->
                 m[((k - 1) \div Cols(m)) + 1][((k - 1) % Cols(m)) + 1]]

\* the k-th smallest entry of a sequence of numbers
KthSmallest(xs, k) ==
    CHOOSE v \in {xs[i] : i \in 1..Len(xs)} :
        /\ Cardinality({i \in 1..Len(xs) : xs[i] < v}) < k
        /\ Cardinality({i \in 1..Len(xs) : xs[i] <= v}) >= k

\* twice np.median(xs): the middle entry, or the mean of the two middle ones
Median2(xs) ==
    LET n == Len(xs)
    IN  IF n % 2 = 1 THEN 2 * KthSmallest(xs, (n + 1) \div 2)
        ELSE KthSmallest(xs, n \div 2) + KthSmallest(xs, (n \div 2) + 1)

\* np.median(np.abs(hh)) / 0.6745 as the fraction <<numerator, denominator>>
NoiseSigma(hh) ==
    LET xs == Flatten(hh)
    IN  IF \E k \in 1..Len(xs) : xs[k] = Unknown THEN <<Unknown, 1>>
        ELSE IF \E k \in 1..Len(xs) : xs[k] = NaN THEN <<NaN, 1>>
        ELSE <<10000 * Median2([k \in 1..Len(xs) |-> Abs(xs[k])]), 2 * 6745 * Scale>>

\* hh = coeffs[-1][2]: the HH of the finest level; of a list that holds the
\* grid alone (level 0) it is the third row of the grid
FinestHH(cs) ==
    IF Len(cs) > 1 THEN [err |-> "none", hh |-> cs[Len(cs)][3]]
    ELSE IF Rows(cs[1]) >= 3 THEN [err |-> "none", hh |-> <<cs[1][3]>>]
    ELSE [err |-> "IndexError", hh |-> NoResult]

----------------------------------------------------------------------------
(* The wavelet transforms as a state machine *)

\* the sample grids passed in: constant for s = 0, textured otherwise
ImageOf(h, w, s) ==
    [i \in 1..h |-> [j \in 1..w |-> (128 + s * (37 * i + 11 * j + 5 * i * j)) % 256]]

Images == {ImageOf(h, w, s) : h \in 1..MaxDim, w \in 1..MaxDim, s \in 0..MaxImageSeed}

\* PyWavelets names, and '5/3', a key of WAVELET_CONFIGS
WaveletNames == {"haar", "db4", "bior2.2", "bior4.4", "sym4", "5/3"}

Levels == (-1)..MaxLevel

Modes == {"soft", "hard", "medium"}

\* thresholds passed in: 0, 3.0 and the magnitudes of the first coefficients
\* of the coarsest details
ThresholdChoices(cs) ==
    {0, 3 * Scale} \cup
    (IF Len(cs) > 1
     THEN {Abs(cs[2][b][1][1]) : b \in {x \in 1..3 : cs[2][x][1][1] # Unknown}}
     ELSE {})

\* the variables of the quantizer while other components run
QuantIdle ==
    /\ quality = 0
    /\ block_size = 0
    /\ qcoeffs = NoResult
    /\ Q = NoResult
    /\ qresult = NoResult
    /\ dqresult = NoResult

InitWav ==
    /\ op = "idle"
    /\ err = "none"
    /\ keep_levels = 0
    /\ image \in Images
    /\ wavelet \in WaveletNames
    /\ level \in Levels
    /\ pyr = NoResult
    /\ coeffs = NoResult
    /\ threshold = 0
    /\ mode = ""
    /\ tcoeffs = NoResult
    /\ sigma = NoResult
    /\ recon = NoResult
    /\ QuantIdle
    /\ dctc = NoResult
    /\ DenoiseIdle
    /\ MetricsIdle

\* DWT2D(image, wavelet, level)
DWT2DStep ==
    /\ op = "idle"
    /\ LET r == DWT2D(image, wavelet, level)
       IN  /\ err' = r.err
           /\ pyr' = r.result
    /\ op' = "DWT2D"
    /\ image' = CallerArray(image)
    /\ UNCHANGED <<rvars, wavelet, level, coeffs, threshold, mode, tcoeffs, sigma, recon, qvars, dvars, nvars, mvars>>

\* IDWT2D(coeffs, wavelet) on the list DWT2D returned
IDWT2DStep ==
    /\ op = "DWT2D"
    /\ err = "none"
    /\ LET r == IDWT2D(pyr, wavelet)
       IN  /\ err' = r.err
           /\ recon' = r.result
    /\ op' = "IDWT2D"
    /\ UNCHANGED <<rvars, image, wavelet, level, pyr, coeffs, threshold, mode, tcoeffs, sigma, qvars, dvars, nvars, mvars>>

\* mallat_decompose(image, wavelet, levels)
MallatDecomposeStep ==
    /\ op = "idle"
    /\ LET r == mallat_decompose(image, wavelet, level)
       IN  /\ err' = r.err
           /\ coeffs' = r.coeffs
    /\ op' = "mallat_decompose"
    /\ UNCHANGED <<rvars, image, wavelet, level, pyr, threshold, mode, tcoeffs, sigma, recon, qvars, dvars, nvars, mvars>>

\* mallat_reconstruct(coeffs, wavelet) on the 'coeffs' of mallat_decompose
MallatReconstructStep ==
    /\ op = "mallat_decompose"
    /\ err = "none"
    /\ LET r == waverec2(coeffs, wavelet)
       IN  /\ err' = r.err
           /\ recon' = r.result
    /\ op' = "mallat_reconstruct"
    /\ UNCHANGED <<rvars, image, wavelet, level, pyr, coeffs, threshold, mode, tcoeffs, sigma, qvars, dvars, nvars, mvars>>

\* coeffs = pywt.wavedec2(img, wavelet, level=level), the first step of the
\* denoising handlers
Wavedec2Step ==
    /\ op = "idle"
    /\ LET r == wavedec2(image, wavelet, level)
       IN  /\ err' = r.err
           /\ coeffs' = r.coeffs
    /\ op' = "wavedec2"
    /\ UNCHANGED <<rvars, image, wavelet, level, pyr, threshold, mode, tcoeffs, sigma, recon, qvars, dvars, nvars, mvars>>

\* hh = coeffs[-1][2]; sigma = np.median(np.abs(hh)) / 0.6745
EstimateSigmaStep ==
    /\ op = "wavedec2"
    /\ err = "none"
    /\ LET f == FinestHH(coeffs)
       IN  /\ err' = f.err
           /\ sigma' = IF f.err = "none" THEN NoiseSigma(f.hh) ELSE NoResult
    /\ op' = "estimate_sigma"
    /\ UNCHANGED <<rvars, image, wavelet, level, pyr, coeffs, threshold, mode, tcoeffs, recon, qvars, dvars, nvars, mvars>>

\* threshold_coeffs(coeffs, threshold, mode) on the list of wavedec2
ThresholdCoeffsStep ==
    /\ op = "wavedec2"
    /\ err = "none"
    /\ \E t \in ThresholdChoices(coeffs), md \in Modes :
          \E low \in LowChoices(coeffs, t, md) :
             LET r == threshold_coeffs(coeffs, t, md, low)
             IN  /\ coeffs' = r.input
                 /\ tcoeffs' = r.result
                 /\ threshold' = t
                 /\ mode' = md
    /\ op' = "threshold_coeffs"
    /\ UNCHANGED <<rvars, err, image, wavelet, level, pyr, sigma, recon, qvars, dvars, nvars, mvars>>

NextWav ==
    \/ DWT2DStep
    \/ IDWT2DStep
    \/ MallatDecomposeStep
    \/ MallatReconstructStep
    \/ Wavedec2Step
    \/ EstimateSigmaStep
    \/ ThresholdCoeffsStep

SpecWav == InitWav /\ [][NextWav]_vars

----------------------------------------------------------------------------
(* dct.py: the block DCT *)

\* the sample under (i, j) after np.pad(..., mode='edge')
EdgeAt(x, i, j) == x[Min(i, Rows(x))][Min(j, Cols(x))]

\* the coefficient under (i, j) after np.pad(..., mode='constant')
ZeroAt(x, i, j) == IF i <= Rows(x) /\ j <= Cols(x) THEN x[i][j] ELSE 0

\* first row / column of the block that holds index i
BlockOrigin(i, bs) == ((i - 1) \div bs) * bs + 1

\* entry (u, v) of the orthonormal 2-D DCT of a 2 x 2 block [[a, b], [c, d]].
\* The 2-point orthonormal DCT matrix is [[1, 1], [1, -1]] / sqrt(2), its own
\* transpose and inverse, so DCT2D and IDCT2D share this butterfly.
Dct2x2(a, b, c, d, u, v) ==
    Butterfly(a, b, c, d, IF v = 0 THEN 1 ELSE -1, IF u = 0 THEN 1 ELSE -1,
              IF u = v THEN 1 ELSE -1)

\* block_idct that forgets to add back 128
block_idct_noshift(cf, bs) ==
    [i \in 1..Rows(cf) |-> [j \in 1..Cols(cf) |->
        LET bi == BlockOrigin(i, bs)
            bj == BlockOrigin(j, bs)
            y == IF bs = 1 THEN ZeroAt(cf, i, j)
                 ELSE Dct2x2(ZeroAt(cf, bi, bj), ZeroAt(cf, bi, bj + 1),
                             ZeroAt(cf, bi + 1, bj), ZeroAt(cf, bi + 1, bj + 1),
                             i - bi, j - bj)
        IN  Clip(y, 0, 255 * Scale)]]

\* n rounded up to the next multiple of bs
RoundUpTo(n, bs) == ((n + bs - 1) \div bs) * bs

\* result before the crop: one block of coefficients per tile of the grid
\* padded to a multiple of block_size with replicated edge samples
PaddedResult(img, bs) ==
    LET x == Fixed(img)
        s == 128 * Scale
    IN  [i \in 1..RoundUpTo(Rows(x), bs) |-> [j \in 1..RoundUpTo(Cols(x), bs) |->
            LET bi == BlockOrigin(i, bs)
                bj == BlockOrigin(j, bs)
            IN  IF bs = 1 THEN x[i][j] - s
                ELSE Dct2x2(EdgeAt(x, bi, bj) - s, EdgeAt(x, bi, bj + 1) - s,
                            EdgeAt(x, bi + 1, bj) - s, EdgeAt(x, bi + 1, bj + 1) - s,
                            i - bi, j - bj)]]

\* block_dct that returns the padded grid of coefficients, without the crop
block_dct_nocrop(img, bs) == PaddedResult(img, bs)

\* block_idct that returns the shifted samples without np.clip
block_idct_noclip(cf, bs) ==
    [i \in 1..Rows(cf) |-> [j \in 1..Cols(cf) |->
        LET bi == BlockOrigin(i, bs)
            bj == BlockOrigin(j, bs)
            y == IF bs = 1 THEN ZeroAt(cf, i, j)
                 ELSE Dct2x2(ZeroAt(cf, bi, bj), ZeroAt(cf, bi, bj + 1),
                             ZeroAt(cf, bi + 1, bj), ZeroAt(cf, bi + 1, bj + 1),
                             i - bi, j - bj)
        IN  y + 128 * Scale]]

\* block_dct(image, block_size) for block_size 1 and 2: edge padding, DCT2D
\* of block - 128 per block, and the crop result[:h, :w]
block_dct(img, bs) ==
    LET x == Fixed(img)
        s == 128 * Scale
    IN  [i \in 1..Rows(x) |-> [j \in 1..Cols(x) |->
            LET bi == BlockOrigin(i, bs)
                bj == BlockOrigin(j, bs)
            IN  IF bs = 1 THEN x[i][j] - s
                ELSE Dct2x2(EdgeAt(x, bi, bj) - s, EdgeAt(x, bi, bj + 1) - s,
                            EdgeAt(x, bi + 1, bj) - s, EdgeAt(x, bi + 1, bj + 1) - s,
                            i - bi, j - bj)]]

\* block_idct(coeffs, block_size) for block_size 1 and 2: zero padding,
\* IDCT2D + 128 per block, the crop and np.clip(..., 0, 255)
block_idct(cf, bs) ==
    [i \in 1..Rows(cf) |-> [j \in 1..Cols(cf) |->
        LET bi == BlockOrigin(i, bs)
            bj == BlockOrigin(j, bs)
            y == IF bs = 1 THEN ZeroAt(cf, i, j)
                 ELSE Dct2x2(ZeroAt(cf, bi, bj), ZeroAt(cf, bi, bj + 1),
                             ZeroAt(cf, bi + 1, bj), ZeroAt(cf, bi + 1, bj + 1),
                             i - bi, j - bj)
        IN  Clip(y + 128 * Scale, 0, 255 * Scale)]]

\* sample grids that leave [0, 255]: a SampleGrid is not clamped
WideImageOf(h, w) == [i \in 1..h |-> [j \in 1..w |-> 300 - 90 * (i + j - 2)]]

DctImages == Images \cup {WideImageOf(h, w) : h \in 1..MaxDim, w \in 1..MaxDim}

\* the block sizes whose 2-D DCT is exact in fixed point
DctBlockSizes == {1, 2}

InitDct ==
    /\ op = "idle"
    /\ err = "none"
    /\ keep_levels = 0
    /\ image \in DctImages
    /\ block_size \in DctBlockSizes
    /\ dctc = NoResult
    /\ recon = NoResult
    /\ quality = 0
    /\ qcoeffs = NoResult
    /\ Q = NoResult
    /\ qresult = NoResult
    /\ dqresult = NoResult
    /\ wavelet = ""
    /\ level = 0
    /\ pyr = NoResult
    /\ coeffs = NoResult
    /\ threshold = 0
    /\ mode = ""
    /\ tcoeffs = NoResult
    /\ sigma = NoResult
    /\ DenoiseIdle
    /\ MetricsIdle

\* block_dct(image, block_size)
BlockDctStep ==
    /\ op = "idle"
    /\ dctc' = block_dct(image, block_size)
    /\ op' = "block_dct"
    /\ image' = CallerArray(image)
    /\ UNCHANGED <<rvars, err, qvars, wavelet, level, pyr, coeffs, threshold, mode, tcoeffs, sigma,
                   recon, nvars, mvars>>

\* block_idct(coeffs, block_size) on the grid block_dct returned
BlockIdctStep ==
    /\ op = "block_dct"
    /\ recon' = block_idct(dctc, block_size)
    /\ op' = "block_idct"
    /\ dctc' = CallerArray(dctc)
    /\ UNCHANGED <<rvars, err, qvars, image, wavelet, level, pyr, coeffs, threshold, mode,
                   tcoeffs, sigma, nvars, mvars>>

\* coefficient grids a caller passes to block_idct directly, such as
\* dequantized ones: multiples of a step, far outside the range of a DCT
DctCoeffGrids ==
    {[i \in 1..h |-> [j \in 1..w |-> Scale * st * (7 * i - 5 * j)]] :
        h \in 1..MaxDim, w \in 1..MaxDim, st \in {1, 16, 255}}

\* block_idct(coeffs, block_size) on a grid of the caller
BlockIdctGridStep ==
    /\ op = "idle"
    /\ \E cf \in DctCoeffGrids :
          /\ dctc' = cf
          /\ recon' = block_idct(cf, block_size)
    /\ op' = "block_idct(coeffs)"
    /\ UNCHANGED <<rvars, err, qvars, image, wavelet, level, pyr, coeffs, threshold, mode,
                   tcoeffs, sigma, nvars, mvars>>

NextDct == BlockDctStep \/ BlockIdctStep \/ BlockIdctGridStep

SpecDct == InitDct /\ [][NextDct]_vars

\* a grid whose samples all lie in the valid range
InRange(img) == \A i \in 1..Rows(img), j \in 1..Cols(img) : img[i][j] \in 0..255

MultipleOfBlock(img, bs) == Rows(img) % bs = 0 /\ Cols(img) % bs = 0

\* C2 as stated: for any grid whose height and width are multiples of the
\* block size, block_idct(block_dct(x)) equals x sample by sample.
C2_RoundTripAnyGrid ==
    (op = "block_idct" /\ MultipleOfBlock(image, block_size)) => recon = Fixed(image)

\* C2 amended: for any grid whose height and width are multiples of the block
\* size and whose samples lie in [0, 255], block_idct(block_dct(x)) equals x
\* sample by sample.
C2_RoundTripInRange ==
    (op = "block_idct" /\ MultipleOfBlock(image, block_size) /\ InRange(image))
        => recon = Fixed(image)

\* a textured 4 x 2 grid went through 2 x 2 blocks and came back
C2_Witness ==
    /\ op = "block_idct"
    /\ block_size = 2
    /\ Rows(image) = 4
    /\ Cols(image) = 2
    /\ InRange(image)
    /\ image[1][1] # image[1][2]
    /\ dctc[1][2] # 0
    /\ recon = Fixed(image)

----------------------------------------------------------------------------
(* Claims about the wavelet transforms *)

\* the PyWavelets names of the families of WAVELET_CONFIGS
RegisteredWavelets == {"bior2.2", "bior4.4", "haar", "db4"}

RECURSIVE FloorLog2(_)
FloorLog2(n) == IF n <= 1 THEN 0 ELSE 1 + FloorLog2(n \div 2)

\* the largest level count the specification allows for a grid
MaxLevels(img) == FloorLog2(Min(Rows(img), Cols(img))) - 1

\* a reconstruction returned, of a decomposition with a level count the
\* specification allows
Reconstructed ==
    /\ op \in {"IDWT2D", "mallat_reconstruct"}
    /\ err = "none"
    /\ level \in 1..MaxLevels(image)

\* C1: for every registered family and every allowed level count, the grid
\* reconstructed from the untouched pyramid (DWT2D then IDWT2D,
\* mallat_decompose then mallat_reconstruct) equals the original grid sample
\* by sample, for even and odd heights and widths.  Sample values are
\* compared for haar, whose arithmetic the model carries; for the other
\* families the grids are compared by shape.
C1_PerfectReconstruction ==
    (Reconstructed /\ wavelet \in RegisteredWavelets) =>
        IF wavelet = "haar" THEN recon = Fixed(image) ELSE SameShape(recon, image)

\* C3: the grid returned by IDWT2D and mallat_reconstruct has exactly the
\* height and width of the grid given to the decomposition, for every height
\* and width and every allowed level count.
C3_ReconstructedShape ==
    Reconstructed => (Rows(recon) = Rows(image) /\ Cols(recon) = Cols(image))

\* C7: a level count below 1 or above floor(log2(min(height, width))) - 1
\* makes the decomposition fail: DWT2D and mallat_decompose return no
\* pyramid, and no empty list either.
C7_LevelsValidated ==
    (/\ op \in {"DWT2D", "mallat_decompose"}
     /\ (level < 1 \/ level > MaxLevels(image))) =>
        /\ err # "none"
        /\ pyr = NoResult
        /\ coeffs = NoResult

\* what the specification asks of one coefficient
ClaimedThreshold(c, t, md) ==
    IF md = "soft"
    THEN (IF c > 0 THEN 1 ELSE IF c < 0 THEN -1 ELSE 0) * Max(Abs(c) - t, 0)
    ELSE IF Abs(c) >= t THEN c ELSE 0

\* C8: threshold_coeffs maps every coefficient c of every detail subband to
\* sign(c) * max(|c| - threshold, 0) in mode "soft" and to c if
\* |c| >= threshold else 0 in mode "hard".
C8_ThresholdFormula ==
    (op = "threshold_coeffs" /\ wavelet = "haar" /\ mode \in {"soft", "hard"}) =>
        \A k \in 2..Len(coeffs), b \in 1..3 :
            \A i \in 1..Rows(coeffs[k][b]), j \in 1..Cols(coeffs[k][b]) :
                \/ tcoeffs[k][b][i][j] = ClaimedThreshold(coeffs[k][b][i][j], threshold, mode)
                \/ mode = "hard" /\ <<k, b, i, j>> \in Ties(coeffs, threshold)

\* C9: threshold_coeffs returns a list with the same number of levels and
\* the same subband shapes whose LL is the LL of the input, for every
\* threshold and mode, and the call leaves every coefficient of the list it
\* was given (LL and details) as it was.
C9_InputPreserved ==
    [][(op = "wavedec2" /\ op' = "threshold_coeffs") =>
          /\ coeffs' = coeffs
          /\ Len(tcoeffs') = Len(coeffs)
          /\ tcoeffs'[1] = coeffs[1]
          /\ \A k \in 2..Len(coeffs), b \in 1..3 : SameShape(tcoeffs'[k][b], coeffs[k][b])
      ]_vars

\* a call that zeroed or shrank at least one detail coefficient of a
\* two-level pyramid
C9_Witness ==
    /\ op = "threshold_coeffs"
    /\ wavelet = "haar"
    /\ Len(coeffs) = 3
    /\ threshold > 0
    /\ tcoeffs # coeffs
    /\ tcoeffs[1] = coeffs[1]

\* C10: the estimate is the median absolute deviation of the finest HH, the
\* median of |c - median(HH)|, divided by 0.6745, also when the median of HH
\* is not zero, for an HH of two coefficients or more.  With the entries
\* doubled, 2|c - median| = |2c - Median2|.
C10_SigmaIsMAD ==
    (/\ op = "estimate_sigma"
     /\ err = "none"
     /\ wavelet = "haar"
     /\ level >= 1
     /\ Len(Flatten(FinestHH(coeffs).hh)) >= 2) =>
        LET xs == Flatten(FinestHH(coeffs).hh)
            m2 == Median2(xs)
            dev == [k \in 1..Len(xs) |-> Abs(2 * xs[k] - m2)]
        IN  /\ sigma[2] = 2 * 6745 * Scale
            /\ 2 * sigma[1] = 10000 * Median2(dev)

----------------------------------------------------------------------------
(* denoising.py: wavelet_denoise, statement by statement *)

\* threshold=None, the default of wavelet_denoise
NoThreshold == -1

\* compute_threshold(sigma, n_samples, method): sigma * sqrt(2 * log(n)) * f
\* with f = 1, 0.8, 0.6 for 'universal', 'sure', 'bayes' and f = 1 in the
\* else branch; kept as the record [sigma, n, tenths] with tenths = 10 * f
compute_threshold(sig, n, m) ==
    [sigma |-> sig, n |-> n,
     tenths |-> IF m = "universal" THEN 10
                ELSE IF m = "sure" THEN 8
                ELSE IF m = "bayes" THEN 6
                ELSE 10]

\* the float a threshold record stands for: 0 when sigma = 0 or log(n) = 0,
\* NaN from a NaN sigma, otherwise a value that is not carried
ThresholdValue(t) ==
    IF t.sigma[1] = NaN THEN NaN
    ELSE IF t.sigma[1] = Unknown THEN Unknown
    ELSE IF t.sigma[1] = 0 \/ t.n = 1 THEN 0
    ELSE Unknown

\* np.clip(x, 0, 255).astype(np.uint8) of one sample: truncation of the
\* clipped float.  A float whose carried value is an integer n in 1..255 may
\* lie a few ulps below it and is then truncated to n - 1 (low); the cast of
\* NaN is undefined and gives the byte nan8
ClipToUint8(x, low, nan8) ==
    IF x = Unknown THEN Unknown
    ELSE IF x = NaN THEN nan8
    ELSE IF low /\ x % Scale = 0 /\ x \in Scale..(255 * Scale) THEN (x \div Scale) - 1
    ELSE Clip(x, 0, 255 * Scale) \div Scale

\* the bytes the cast of NaN to uint8 can give, one per build
NaNCasts(x) ==
    IF \E i \in 1..Rows(x), j \in 1..Cols(x) : x[i][j] = NaN THEN 0..255 ELSE {0}

\* the sets of samples of the reconstruction x of the list cs that one call
\* takes below their integer: every set of the samples that carry an
\* integer in 1..255, each float lying on its own side of the integer; none
\* when waverec2 returned the only entry of the list, the grid itself
LowCasts(x, cs) ==
    IF Len(cs) = 1 THEN {{}}
    ELSE SUBSET {p \in {<<i, j>> : i \in 1..Rows(x), j \in 1..Cols(x)} :
                   /\ x[p[1]][p[2]] \notin {NaN, Unknown}
                   /\ x[p[1]][p[2]] % Scale = 0
                   /\ x[p[1]][p[2]] \in Scale..(255 * Scale)}

\* denoised[:img.shape[0], :img.shape[1]]
CropTo(x, h, w) == [i \in 1..Min(h, Rows(x)) |-> [j \in 1..Min(w, Cols(x)) |-> x[i][j]]]

Methods == {"universal", "sure", "bayes", "visu"}

\* the grids passed to wavelet_denoise: one and two rows high
DenoiseImages ==
    {ImageOf(h, w, s) : h \in 1..2, w \in 1..MaxDim, s \in 0..MaxImageSeed}

InitDenoise ==
    /\ op = "idle"
    /\ err = "none"
    /\ keep_levels = 0
    /\ image \in DenoiseImages
    /\ wavelet \in WaveletNames
    /\ level \in Levels
    /\ mode \in Modes
    /\ \/ threshold = NoThreshold /\ method \in Methods
       \/ threshold \in {0, 3 * Scale} /\ method = "universal"
    /\ pyr = NoResult
    /\ coeffs = NoResult
    /\ tcoeffs = NoResult
    /\ sigma = NoResult
    /\ recon = NoResult
    /\ thr = NoResult
    /\ sigma_hh = NoResult
    /\ denoised = NoResult
    /\ QuantIdle
    /\ dctc = NoResult
    /\ MetricsIdle

\* sigma = estimate_noise_sigma(img): coeffs = pywt.wavedec2(image, 'db4',
\* level=1); HH = coeffs[1][2]; sigma = np.median(np.abs(HH)) / 0.6745
DenoiseEstimateStep ==
    /\ op = "idle"
    /\ LET hh == wavedec2(image, "db4", 1).coeffs[2][3]
       IN  /\ sigma_hh' = hh
           /\ sigma' = NoiseSigma(hh)
    /\ op' = "estimate_noise_sigma"
    /\ image' = CallerArray(image)
    /\ UNCHANGED <<rvars, err, wavelet, level, pyr, coeffs, threshold, mode, tcoeffs, recon,
                   method, thr, denoised, qvars, dvars, mvars>>

\* if threshold is None: threshold = compute_threshold(sigma, img.size,
\* threshold_method)
DenoiseThresholdStep ==
    /\ op = "estimate_noise_sigma"
    /\ IF threshold = NoThreshold
       THEN LET t == compute_threshold(sigma, Rows(image) * Cols(image), method)
            IN  /\ thr' = t
                /\ threshold' = ThresholdValue(t)
       ELSE UNCHANGED <<thr, threshold>>
    /\ op' = "compute_threshold"
    /\ UNCHANGED <<rvars, err, image, wavelet, level, pyr, coeffs, mode, tcoeffs, sigma, recon,
                   method, sigma_hh, denoised, qvars, dvars, mvars>>

\* coeffs = pywt.wavedec2(img, wavelet, level=level)
DenoiseDecomposeStep ==
    /\ op = "compute_threshold"
    /\ LET r == wavedec2(image, wavelet, level)
       IN  /\ err' = r.err
           /\ coeffs' = r.coeffs
    /\ op' = "wavedec2"
    /\ UNCHANGED <<rvars, image, wavelet, level, pyr, threshold, mode, tcoeffs, sigma, recon,
                   nvars, qvars, dvars, mvars>>

\* coeffs_thresh = threshold_coeffs(coeffs, threshold, threshold_mode)
DenoiseApplyStep ==
    /\ op = "wavedec2"
    /\ err = "none"
    /\ \E low \in LowChoices(coeffs, threshold, mode) :
          LET r == threshold_coeffs(coeffs, threshold, mode, low)
          IN  /\ coeffs' = r.input
              /\ tcoeffs' = r.result
    /\ op' = "threshold_coeffs"
    /\ UNCHANGED <<rvars, err, image, wavelet, level, pyr, threshold, mode, sigma, recon,
                   nvars, qvars, dvars, mvars>>

\* denoised = pywt.waverec2(coeffs_thresh, wavelet), trimmed to img.shape
DenoiseReconstructStep ==
    /\ op = "threshold_coeffs"
    /\ err = "none"
    /\ LET r == waverec2(tcoeffs, wavelet)
       IN  /\ err' = r.err
           /\ recon' = IF r.err = "none"
                       THEN CropTo(r.result, Rows(image), Cols(image))
                       ELSE NoResult
    /\ op' = "waverec2"
    /\ UNCHANGED <<rvars, image, wavelet, level, pyr, coeffs, threshold, mode, tcoeffs, sigma,
                   nvars, qvars, dvars, mvars>>

\* the dictionary returned: 'denoised' is np.clip(denoised, 0,
\* 255).astype(np.uint8), 'sigma' and 'threshold' as computed above
DenoiseReturnStep ==
    /\ op = "waverec2"
    /\ err = "none"
    /\ \E low \in LowCasts(recon, tcoeffs), nan8 \in NaNCasts(recon) :
          denoised' = [i \in 1..Rows(recon) |-> [j \in 1..Cols(recon) |->
                         ClipToUint8(recon[i][j], <<i, j>> \in low, nan8)]]
    /\ op' = "wavelet_denoise"
    /\ UNCHANGED <<rvars, err, wvars, method, thr, sigma_hh, qvars, dvars, mvars>>

NextDenoise ==
    \/ DenoiseEstimateStep
    \/ DenoiseThresholdStep
    \/ DenoiseDecomposeStep
    \/ DenoiseApplyStep
    \/ DenoiseReconstructStep
    \/ DenoiseReturnStep

SpecDenoise == InitDenoise /\ [][NextDenoise]_vars

\* C11: the sigma wavelet_denoise uses and reports is estimated from the
\* finest HH subband of the very pyramid that is then thresholded, the
\* decomposition of the noisy grid with the requested wavelet, and that
\* pyramid exists when the estimate is made.
C11_SigmaFromOwnPyramid ==
    (op = "wavelet_denoise" /\ level >= 1) => sigma_hh = FinestHH(coeffs).hh

----------------------------------------------------------------------------
(* backend/main.py: the DCT path of compare_dct_wavelet.  The 8 x 8      *)
(* orthonormal DCT of a block whose 64 samples are equal has the single   *)
(* coefficient DC = 8 * (sample - 128); grids made of such blocks are the  *)
(* ones whose path is carried, anything else comes out as Unknown.        *)

\* the metric values: a fraction num / den, +infinity, NaN, or not carried
Value(n, d) == [kind |-> "value", num |-> n, den |-> d]

Infinity == [kind |-> "inf", num |-> 0, den |-> 1]

NotANumber == [kind |-> "nan", num |-> 0, den |-> 1]

NotCarried == [kind |-> "unknown", num |-> 0, den |-> 1]

RECURSIVE SumSeq(_)
SumSeq(xs) == IF Len(xs) = 0 THEN 0 ELSE Head(xs) + SumSeq(Tail(xs))

\* the sample of the 8 x 8 block at (bi, bj) of the edge-padded grid when
\* its 64 samples are equal, Unknown otherwise
FlatBlock(x, bi, bj) ==
    IF \A di \in 0..7, dj \in 0..7 : EdgeAt(x, bi + di, bj + dj) = EdgeAt(x, bi, bj)
    THEN EdgeAt(x, bi, bj) ELSE Unknown

\* np.round(n / d) with truncation in place of rounding
RoundTrunc(n, d, away) == IF n >= 0 THEN n \div d ELSE -((-n) \div d)

\* np.round(n / d) of a quotient whose numerator comes out of the float DCT:
\* the nearest integer; where the carried quotient is an exact half, the
\* float lies above it in magnitude (away) and is rounded away from zero, or
\* does not and is rounded towards zero
RoundNear(n, d, away) ==
    IF (2 * n) % (2 * d) = d
    THEN (IF n >= 0 THEN 1 ELSE -1) * ((Abs(n) \div d) + (IF away THEN 1 ELSE 0))
    ELSE RoundHalfEven(n, d)

\* the DC coefficient of every block: dct(dct(block.T).T) of block - 128
HarnessDC(img) ==
    [bi \in 1..((Rows(img) + 7) \div 8) |-> [bj \in 1..((Cols(img) + 7) \div 8) |->
        LET v == FlatBlock(img, 8 * (bi - 1) + 1, 8 * (bj - 1) + 1)
        IN  IF v = Unknown THEN Unknown ELSE 8 * (v - 128)]]

\* quantized = np.round(dct_block / Q) at the DC position; away holds the
\* magnitudes whose float quotient lies above its half: the transform of a
\* block is one float per sample value, and that of the negated block is
\* its negation
HarnessQuantized(dc, tab, away) ==
    [bi \in 1..Rows(dc) |-> [bj \in 1..Cols(dc) |->
        IF dc[bi][bj] = Unknown THEN Unknown
        ELSE RoundNear(dc[bi][bj], tab[1][1], Abs(dc[bi][bj]) \in away)]]

\* the ways the exact halves of a grid of DC coefficients can fall: every
\* set of their magnitudes
AwayChoices(dc, d) ==
    SUBSET {Abs(dc[p[1]][p[2]]) :
              p \in {q \in (1..Rows(dc)) \X (1..Cols(dc)) :
                       /\ dc[q[1]][q[2]] # Unknown
                       /\ (2 * dc[q[1]][q[2]]) % (2 * d) = d}}

\* dequantized = quantized * Q at the DC position
HarnessDequantized(qz, tab) ==
    [bi \in 1..Rows(qz) |-> [bj \in 1..Cols(qz) |->
        IF qz[bi][bj] = Unknown THEN Unknown ELSE qz[bi][bj] * tab[1][1]]]

\* dct_result = np.clip(dct_result[:h, :w], 0, 255): the inverse DCT of a
\* DC-only block is the constant DC / 8, plus 128
HarnessResult(dq, h, w) ==
    [i \in 1..h |-> [j \in 1..w |->
        LET d == dq[((i - 1) \div 8) + 1][((j - 1) \div 8) + 1]
        IN  IF d = Unknown THEN Unknown
            ELSE Clip((d * Scale) \div 8 + 128 * Scale, 0, 255 * Scale)]]

\* np.mean((a - b) ** 2) of two fixed-point grids of one shape
MeanSquare(a, b) ==
    LET xa == Flatten(a)
        xb == Flatten(b)
    IN  IF \E k \in 1..Len(xa) : xa[k] = Unknown \/ xb[k] = Unknown THEN NotCarried
        ELSE Value(SumSeq([k \in 1..Len(xa) |-> (xa[k] - xb[k]) * (xa[k] - xb[k])]),
                   Len(xa) * Scale * Scale)

\* the DCT path of compare_dct_wavelet(file, quality, ...):
\* [err, Q, dc, quantized, dequantized, result, mse]
compare_dct(img, q, away) ==
    IF q = 0
    THEN [err |-> "ZeroDivisionError", Q |-> NoResult, dc |-> NoResult,
          quantized |-> NoResult, dequantized |-> NoResult, result |-> NoResult,
          mse |-> NoResult]
    ELSE LET tab == QuantTable(q)
             dc == HarnessDC(img)
             qz == HarnessQuantized(dc, tab, away)
             dq == HarnessDequantized(qz, tab)
             res == HarnessResult(dq, Rows(img), Cols(img))
         IN  [err |-> "none", Q |-> tab, dc |-> dc, quantized |-> qz,
              dequantized |-> dq, result |-> res, mse |-> MeanSquare(Fixed(img), res)]

\* the uploads: grids of equal samples, and grids one row high whose ninth
\* column starts a second block
FlatImage(h, w, v, v2) == [i \in 1..h |-> [j \in 1..w |-> IF j <= 8 THEN v ELSE v2]]

CodecSamples == {0, 255} \cup {128 + d : d \in (-MaxCoefSeed)..MaxCoefSeed}

CodecImages ==
    {FlatImage(sh[1], sh[2], v, v2) :
        sh \in {<<1, 1>>, <<2, 3>>, <<1, 9>>}, v \in CodecSamples, v2 \in CodecSamples}
    \cup {ImageOf(2, 2, 1)}

InitCodec ==
    /\ op = "idle"
    /\ err = "none"
    /\ keep_levels = 0
    /\ image \in CodecImages
    /\ quality \in Qualities
    /\ block_size = 8
    /\ qcoeffs = NoResult
    /\ Q = NoResult
    /\ qresult = NoResult
    /\ dqresult = NoResult
    /\ wavelet = ""
    /\ level = 0
    /\ pyr = NoResult
    /\ coeffs = NoResult
    /\ threshold = 0
    /\ mode = ""
    /\ tcoeffs = NoResult
    /\ sigma = NoResult
    /\ recon = NoResult
    /\ dctc = NoResult
    /\ DenoiseIdle
    /\ MetricsIdle

\* the DCT path of the handler on the uploaded grid
CompareDctStep ==
    /\ op = "idle"
    /\ \E away \in (IF quality = 0 THEN {{}}
                     ELSE AwayChoices(HarnessDC(image), QuantTable(quality)[1][1])) :
          LET r == compare_dct(image, quality, away)
          IN  /\ err' = r.err
              /\ Q' = r.Q
              /\ qcoeffs' = r.dc
              /\ qresult' = r.quantized
              /\ dqresult' = r.dequantized
              /\ recon' = r.result
              /\ mres' = r.mse
    /\ op' = "compare_dct"
    /\ UNCHANGED <<rvars, quality, block_size, image, wavelet, level, pyr, coeffs, threshold, mode,
                   tcoeffs, sigma, dvars, nvars, ma, mb>>

\* a value of the fixed-point representation in tenths of its unit, so that
\* multiples of 0.3 are integers
Tenths(c) == IF c = Unknown \/ c = NaN THEN c ELSE 10 * c

TenthsGrid(m) == [i \in 1..Rows(m) |-> [j \in 1..Cols(m) |-> Tenths(m[i][j])]]

\* coeffs = pywt.wavedec2(img_array, wavelet, level=levels), in tenths
HarnessCoeffs(cs) ==
    [k \in 1..Len(cs) |->
        IF k = 1 THEN TenthsGrid(cs[1])
        ELSE <<TenthsGrid(cs[k][1]), TenthsGrid(cs[k][2]), TenthsGrid(cs[k][3])>>]

\* the threshold with the factor 0.5 in place of 0.3
HarnessThresholdHalf(q) == (100 - q) * 5

\* compare_dct_wavelet: threshold = (100 - quality) * 0.3, in tenths
HarnessThreshold(q) == (100 - q) * 3

\* compare_sample_image: threshold = (100 - quality) * 0.3, in tenths
SampleThreshold(q) == (100 - q) * 3

\* thresholded = [coeffs[0]] followed by the triples of
\* pywt.threshold(., threshold, mode='soft'); t in tenths
HarnessThresholded(cs, t) ==
    [k \in 1..Len(cs) |->
        IF k = 1 THEN cs[1]
        ELSE <<ThresholdBand(cs[k][1], t * Scale, "soft", {}),
               ThresholdBand(cs[k][2], t * Scale, "soft", {}),
               ThresholdBand(cs[k][3], t * Scale, "soft", {})>>]

\* np.clip(wavelet_result[:h, :w], 0, 255), in tenths
HarnessClip(x, h, w) ==
    LET c == CropTo(x, h, w)
    IN  [i \in 1..Rows(c) |-> [j \in 1..Cols(c) |->
            IF c[i][j] = Unknown \/ c[i][j] = NaN THEN c[i][j]
            ELSE Clip(c[i][j], 0, 255 * Scale * 10)]]

\* the wavelet path of both harness handlers for the threshold t (tenths):
\* [err, coeffs, thresholded, result]
compare_wavelet(img, w, lev, t) ==
    LET r == wavedec2(img, w, lev)
    IN  IF r.err # "none"
        THEN [err |-> r.err, coeffs |-> NoResult, thresholded |-> NoResult,
              result |-> NoResult]
        ELSE LET cs == HarnessCoeffs(r.coeffs)
                 th == HarnessThresholded(cs, t)
                 rec == waverec2(th, w)
             IN  [err |-> rec.err, coeffs |-> r.coeffs, thresholded |-> th,
                  result |-> IF rec.err = "none"
                             THEN HarnessClip(rec.result, Rows(img), Cols(img))
                             ELSE NoResult]

\* the wavelets and level counts the harness is asked for
HarnessRequests == {<<"haar", 2>>, <<"bior4.4", 1>>}

\* the wavelet path of compare_dct_wavelet, after its DCT path
CompareWaveletStep ==
    /\ op = "compare_dct"
    /\ err = "none"
    /\ \E req \in HarnessRequests :
          LET t == HarnessThreshold(quality)
              r == compare_wavelet(image, req[1], req[2], t)
          IN  /\ wavelet' = req[1]
              /\ level' = req[2]
              /\ err' = r.err
              /\ coeffs' = r.coeffs
              /\ threshold' = t
              /\ mode' = "soft"
              /\ tcoeffs' = r.thresholded
              /\ denoised' = r.result
    /\ op' = "compare_dct_wavelet"
    /\ UNCHANGED <<rvars, qvars, image, pyr, sigma, recon, dvars, method, thr, sigma_hh, mvars>>

\* the wavelet path of compare_sample_image, whose DCT path is the same code
\* on a stored image
CompareSampleWaveletStep ==
    /\ op = "compare_dct"
    /\ err = "none"
    /\ \E req \in HarnessRequests :
          LET t == SampleThreshold(quality)
              r == compare_wavelet(image, req[1], req[2], t)
          IN  /\ wavelet' = req[1]
              /\ level' = req[2]
              /\ err' = r.err
              /\ coeffs' = r.coeffs
              /\ threshold' = t
              /\ mode' = "soft"
              /\ tcoeffs' = r.thresholded
              /\ denoised' = r.result
    /\ op' = "compare_sample_image"
    /\ UNCHANGED <<rvars, qvars, image, pyr, sigma, recon, dvars, method, thr, sigma_hh, mvars>>

NextCodec == CompareDctStep \/ CompareWaveletStep \/ CompareSampleWaveletStep

SpecCodec == InitCodec /\ [][NextCodec]_vars

\* a path that returned a mean squared error for a quality in [1, 100]
Compared ==
    /\ op = "compare_dct"
    /\ err = "none"
    /\ quality \in 1..100
    /\ mres.kind = "value"

\* C12 as stated: for a fixed image and any qualities q1 < q2 in [1, 100] the
\* mean squared error of the reconstruction at q1 is at least that at q2.
C12_DistortionMonotonic ==
    Compared =>
        \A q2 \in (quality + 1)..100 :
            \A away \in AwayChoices(HarnessDC(image), QuantTable(q2)[1][1]) :
                mres.num >= compare_dct(image, q2, away).mse.num

\* C12 amended: every dequantized coefficient lies within half its divisor
\* of the coefficient that was quantized, whatever the quality in [1, 100];
\* with the divisors non-increasing in quality, the bound on the distortion
\* is what never shrinks as quality decreases.
C12_ErrorWithinHalfDivisor ==
    Compared =>
        \A bi \in 1..Rows(qcoeffs), bj \in 1..Cols(qcoeffs) :
            /\ 2 * Abs(qcoeffs[bi][bj] - dqresult[bi][bj]) <= Q[1][1]
            /\ \A q2 \in (quality + 1)..100 : QEntry(Q50[1][1], q2) <= Q[1][1]

\* a block whose DC coefficient 16 went through divisor 13 and came back 13
C12_Witness ==
    /\ Compared
    /\ quality = 60
    /\ Q[1][1] = 13
    /\ qcoeffs[1][1] = 16
    /\ dqresult[1][1] = 13
    /\ mres.num > 0

----------------------------------------------------------------------------
(* Claims about the shapes and ranges of the block DCT *)

\* C13 as stated: block_dct returns a coefficient grid whose height and
\* width are the input's rounded up to the next multiple of block_size.
C13_GridRoundedUp ==
    (op = "block_dct") =>
        /\ Rows(dctc) = RoundUpTo(Rows(image), block_size)
        /\ Cols(dctc) = RoundUpTo(Cols(image), block_size)

\* C13 amended: block_dct returns a coefficient grid of the height and width
\* of the input; each coefficient is that of the tile of the input padded on
\* the bottom / right with replicated edge samples, and what the padding
\* added is cropped away.
C13_GridSameShape ==
    (op = "block_dct") =>
        /\ Rows(dctc) = Rows(image)
        /\ Cols(dctc) = Cols(image)
        /\ \A i \in 1..Rows(image), j \in 1..Cols(image) :
              dctc[i][j] = PaddedResult(image, block_size)[i][j]

\* a 3 x 3 grid cut into 2 x 2 tiles: the last row and column are half tiles
C13_Witness ==
    /\ op = "block_dct"
    /\ block_size = 2
    /\ Rows(image) = 3
    /\ Cols(image) = 3
    /\ Rows(dctc) = 3
    /\ dctc[3][3] # 0

\* C14: block_idct returns a grid of the shape of the grid given to
\* block_dct (of its own argument, for a grid of the caller) in which every
\* sample lies in [0, 255], whatever the coefficients and the shape.
C14_CroppedAndClipped ==
    (op \in {"block_idct", "block_idct(coeffs)"}) =>
        /\ Rows(recon) = Rows(dctc)
        /\ Cols(recon) = Cols(dctc)
        /\ op = "block_idct" => (Rows(recon) = Rows(image) /\ Cols(recon) = Cols(image))
        /\ \A i \in 1..Rows(recon), j \in 1..Cols(recon) :
              recon[i][j] >= 0 /\ recon[i][j] <= 255 * Scale

\* coefficients far out of range on a 3 x 3 grid with 2 x 2 blocks came back
\* clipped at both ends
C14_Witness ==
    /\ op = "block_idct(coeffs)"
    /\ block_size = 2
    /\ Rows(dctc) = 3
    /\ Cols(dctc) = 3
    /\ \E i \in 1..3, j \in 1..3 : recon[i][j] = 0
    /\ \E i \in 1..3, j \in 1..3 : recon[i][j] = 255 * Scale
    /\ \E i \in 1..3, j \in 1..3 : Abs(dctc[i][j]) > 1000 * Scale

----------------------------------------------------------------------------
(* metrics.py, and snr of denoising.py.  Operands are grids of plain       *)
(* integer samples; a result is one of the metric values above.            *)

\* the largest height and width of an operand of a metric
MaxMetricDim == 3

\* a result that was not computed
Absent == [kind |-> "absent", num |-> 0, den |-> 1]

\* 10 * log10(n / d): finite for n, d > 0, -infinity for n = 0
Decibel(n, d) == [kind |-> "db", num |-> n, den |-> d]

\* 10 * log10((n / d) / 1e-10)
DecibelOverFloor(n, d) == [kind |-> "db/1e-10", num |-> n, den |-> d]

\* numpy broadcasting of two 2-D operands: every dimension equal, or 1 on
\* one side
Broadcastable(a, b) ==
    /\ (Rows(a) = Rows(b) \/ Rows(a) = 1 \/ Rows(b) = 1)
    /\ (Cols(a) = Cols(b) \/ Cols(a) = 1 \/ Cols(b) = 1)

\* the entry of x under (i, j) of the broadcast shape
BAt(x, i, j) == x[IF Rows(x) = 1 THEN 1 ELSE i][IF Cols(x) = 1 THEN 1 ELSE j]

\* the entries of a - b, row after row of the broadcast shape
Difference(a, b) ==
    Flatten([i \in 1..Max(Rows(a), Rows(b)) |-> [j \in 1..Max(Cols(a), Cols(b)) |->
                BAt(a, i, j) - BAt(b, i, j)]])

\* sum of x[k] * y[k]
Dot(xs, ys) == SumSeq([k \in 1..Len(xs) |-> xs[k] * ys[k]])

\* mse(original, compressed): np.mean((original - compressed) ** 2)
mse(a, b) ==
    IF ~Broadcastable(a, b) THEN [err |-> "ValueError", value |-> Absent]
    ELSE LET d == Difference(a, b)
         IN  [err |-> "none", value |-> Value(Dot(d, d), Len(d))]

\* mae(original, compressed): np.mean(np.abs(original - compressed))
mae(a, b) ==
    IF ~Broadcastable(a, b) THEN [err |-> "ValueError", value |-> Absent]
    ELSE LET d == Difference(a, b)
         IN  [err |-> "none",
              value |-> Value(SumSeq([k \in 1..Len(d) |-> Abs(d[k])]), Len(d))]

\* psnr with the mean squared error floored at 1e-10 in place of the test
\* for an exact match
psnr_floored(a, b) ==
    LET m == mse(a, b)
    IN  IF m.err # "none" THEN m
        ELSE IF m.value.num = 0 THEN [err |-> "none", value |-> DecibelOverFloor(255 * 255, 1)]
        ELSE [err |-> "none", value |-> Decibel(255 * 255 * m.value.den, m.value.num)]

\* psnr(original, compressed, max_val=255.0)
psnr(a, b) ==
    LET m == mse(a, b)
    IN  IF m.err # "none" THEN m
        ELSE IF m.value.num = 0 THEN [err |-> "none", value |-> Infinity]
        ELSE [err |-> "none", value |-> Decibel(255 * 255 * m.value.den, m.value.num)]

\* ssim(original, compressed) with the defaults k1 = 0.01, k2 = 0.03,
\* L = 255, so C1 = 2601 / 400 and C2 = 23409 / 400.  With S the sums and n
\* the sizes, the value is (A / C) * (B / D), all four over 400 * na * nb:
\*   A = 2 mu1 mu2 + C1,  C = mu1^2 + mu2^2 + C1   (for operands of one size)
\*   B = 2 sigma12 + C2,  D = sigma1^2 + sigma2^2 + C2
\* returned as num = <<A, B>>, den = <<C, D>> for operands of one shape; for
\* broadcast operands of different sizes the value is not carried.
ssim(a, b) ==
    IF ~Broadcastable(a, b) THEN [err |-> "ValueError", value |-> Absent]
    ELSE IF Rows(a) # Rows(b) \/ Cols(a) # Cols(b)
    THEN [err |-> "none", value |-> NotCarried]
    ELSE LET xa == Flatten(a)
             xb == Flatten(b)
             n == Len(xa)
             S1 == SumSeq(xa)
             S2 == SumSeq(xb)
         IN  [err |-> "none",
              value |-> [kind |-> "ratio",
                         num |-> <<800 * S1 * S2 + 2601 * n * n,
                                   800 * (n * Dot(xa, xb) - S1 * S2) + 23409 * n * n>>,
                         den |-> <<400 * (S1 * S1 + S2 * S2) + 2601 * n * n,
                                   400 * ((n * Dot(xa, xa) - S1 * S1)
                                          + (n * Dot(xb, xb) - S2 * S2)) + 23409 * n * n>>]]

\* metrics.snr(signal, noisy)
snr(a, b) ==
    IF ~Broadcastable(a, b) THEN [err |-> "ValueError", value |-> Absent]
    ELSE LET xa == Flatten(a)
             d == Difference(b, a)
         IN  IF Dot(d, d) = 0 THEN [err |-> "none", value |-> Infinity]
             ELSE [err |-> "none",
                   value |-> Decibel(Dot(xa, xa) * Len(d), Len(xa) * Dot(d, d))]

\* denoising.snr(original, noisy): 10 * log10(signal_power /
\* max(noise_power, 1e-10))
denoising_snr(a, b) ==
    IF ~Broadcastable(a, b) THEN [err |-> "ValueError", value |-> Absent]
    ELSE LET xa == Flatten(a)
             d == Difference(a, b)
         IN  IF Dot(d, d) = 0
             THEN [err |-> "none", value |-> DecibelOverFloor(Dot(xa, xa), Len(xa))]
             ELSE [err |-> "none",
                   value |-> Decibel(Dot(xa, xa) * Len(d), Len(xa) * Dot(d, d))]

\* compare_images(original, compressed): the dictionary of the four
\* metrics; the first one that raises ends the call
compare_images(a, b) ==
    IF psnr(a, b).err # "none"
    THEN [err |-> psnr(a, b).err, psnr |-> Absent, ssim |-> Absent, mse |-> Absent,
          mae |-> Absent]
    ELSE [err |-> "none", psnr |-> psnr(a, b).value, ssim |-> ssim(a, b).value,
          mse |-> mse(a, b).value, mae |-> mae(a, b).value]

\* the operands: constant grids, a ramp, and a checkerboard with its inverse
MetricGrid(h, w, k) ==
    [i \in 1..h |-> [j \in 1..w |->
        CASE k = 0 -> 0
          [] k = 1 -> 100
          [] k = 2 -> (10 * (i + 2 * j)) % 101
          [] k = 3 -> ((i + j) % 2) * 100
          [] OTHER -> ((i + j + 1) % 2) * 100]]

MetricGrids == {MetricGrid(h, w, k) : h \in 1..MaxMetricDim, w \in 1..MaxMetricDim, k \in 0..4}

InitMetrics ==
    /\ op = "idle"
    /\ err = "none"
    /\ keep_levels = 0
    /\ ma \in MetricGrids
    /\ mb \in MetricGrids
    /\ mres = NoResult
    /\ QuantIdle
    /\ WaveletIdle
    /\ dctc = NoResult
    /\ DenoiseIdle

\* the result record of a single metric
Single(r) == [err |-> r.err, value |-> r.value]

MseStep ==
    /\ op = "idle"
    /\ mres' = Single(mse(ma, mb))
    /\ err' = mse(ma, mb).err
    /\ op' = "mse"
    /\ UNCHANGED <<rvars, qvars, wvars, dvars, nvars, ma, mb>>

MaeStep ==
    /\ op = "idle"
    /\ mres' = Single(mae(ma, mb))
    /\ err' = mae(ma, mb).err
    /\ op' = "mae"
    /\ UNCHANGED <<rvars, qvars, wvars, dvars, nvars, ma, mb>>

SnrStep ==
    /\ op = "idle"
    /\ mres' = Single(snr(ma, mb))
    /\ err' = snr(ma, mb).err
    /\ op' = "metrics.snr"
    /\ UNCHANGED <<rvars, qvars, wvars, dvars, nvars, ma, mb>>

DenoisingSnrStep ==
    /\ op = "idle"
    /\ mres' = Single(denoising_snr(ma, mb))
    /\ err' = denoising_snr(ma, mb).err
    /\ op' = "denoising.snr"
    /\ UNCHANGED <<rvars, qvars, wvars, dvars, nvars, ma, mb>>

CompareImagesStep ==
    /\ op = "idle"
    /\ mres' = compare_images(ma, mb)
    /\ err' = compare_images(ma, mb).err
    /\ op' = "compare_images"
    /\ UNCHANGED <<rvars, qvars, wvars, dvars, nvars, ma, mb>>

NextMetrics ==
    \/ MseStep
    \/ MaeStep
    \/ SnrStep
    \/ DenoisingSnrStep
    \/ CompareImagesStep

SpecMetrics == InitMetrics /\ [][NextMetrics]_vars

SameShapeOperands == Rows(ma) = Rows(mb) /\ Cols(ma) = Cols(mb)

\* C15: mse and mae fail whenever the shapes of the operands differ, also
\* when they differ only by a dimension of size 1; they never return a
\* number for operands of different shapes.
C15_ShapeMismatchFails ==
    (op \in {"mse", "mae", "compare_images"} /\ ~SameShapeOperands) => err # "none"

\* C16: on identical grids mse is 0, psnr is +infinity (returned) and ssim
\* is 1; and psnr returns a finite value exactly when mse is not zero.
C16_MetricSanity ==
    (op = "compare_images" /\ err = "none" /\ SameShapeOperands) =>
        /\ (ma = mb) =>
              /\ mres.mse = Value(0, Rows(ma) * Cols(ma))
              /\ mres.psnr = Infinity
              /\ mres.ssim.kind = "ratio"
              /\ mres.ssim.num = mres.ssim.den
        /\ (mres.psnr.kind = "db" /\ mres.psnr.num > 0 /\ mres.psnr.den > 0)
              <=> (mres.mse.num # 0)
        /\ (mres.psnr.kind = "inf") <=> (mres.mse.num = 0)

\* the checkerboard compared with itself
C16_Witness ==
    /\ op = "compare_images"
    /\ ma = mb
    /\ ma = MetricGrid(2, 3, 3)
    /\ mres.psnr = Infinity
    /\ mres.ssim.num[2] > 23409 * 36

\* C17: every snr of the core, metrics.snr and denoising.snr, returns
\* +infinity whenever signal - noisy is exactly zero.
C17_SnrInfinite ==
    (/\ op \in {"metrics.snr", "denoising.snr"}
     /\ err = "none"
     /\ \A k \in 1..Len(Difference(ma, mb)) : Difference(ma, mb)[k] = 0) =>
        mres.value = Infinity

\* C18: ssim of two grids of one shape with samples in [0, 255] lies in
\* [0, 1], negatively correlated grids included.  C and D are positive, so
\* the value is >= 0 when A and B have one sign, and it is <= 1 when both
\* factors A / C and B / D are (neither exceeds 1 in exact arithmetic).
C18_SsimInUnitInterval ==
    (op = "compare_images" /\ err = "none" /\ SameShapeOperands) =>
        /\ mres.ssim.num[1] >= 0
        /\ mres.ssim.num[2] >= 0
        /\ mres.ssim.num[1] <= mres.ssim.den[1]
        /\ mres.ssim.num[2] <= mres.ssim.den[2]

----------------------------------------------------------------------------
(* Claims about string selectors *)

\* the methods compute_threshold names
NamedMethods == {"universal", "sure", "bayes"}

\* wavelet_denoise has computed its threshold, or was given one
PastComputeThreshold ==
    op \in {"compute_threshold", "wavedec2", "threshold_coeffs", "waverec2", "wavelet_denoise"}

\* wavelet_denoise has called threshold_coeffs
PastThresholdCoeffs == op \in {"threshold_coeffs", "waverec2", "wavelet_denoise"}

\* C19: a method name that is not one of the named methods makes
\* compute_threshold fail, and a mode that is neither "soft" nor "hard" makes
\* threshold_coeffs fail; neither is silently replaced by a default.
C19_SelectorsRejected ==
    /\ (PastComputeThreshold /\ method \notin NamedMethods) => err # "none"
    /\ (PastThresholdCoeffs /\ mode \notin {"soft", "hard"}) => err # "none"

\* the keys of WAVELET_CONFIGS
RegistryKeys == {"5/3", "9/7", "haar", "db4"}

\* C20: for a wavelet name that is not in the registry, neither as a key
\* nor as the PyWavelets name of a family, the decomposition fails and gives
\* no pyramid, and no reconstruction returns a grid (level counts the
\* specification allows).
C20_UnknownWaveletFails ==
    (wavelet \notin (RegistryKeys \cup RegisteredWavelets) /\ level \in 1..MaxLevels(image)) =>
        /\ op \in {"DWT2D", "mallat_decompose"} =>
              (err # "none" /\ pyr = NoResult /\ coeffs = NoResult)
        /\ op \in {"IDWT2D", "mallat_reconstruct"} => (err # "none" /\ recon = NoResult)

-----------------------------------------------------------------------------
(* The transforms together: a run is one of block_dct / block_idct,
   quantize_dct / dequantize_dct, the wavelet functions, or wavelet_denoise *)

InitTransforms == InitDct \/ InitQuant \/ InitWav \/ InitDenoise

\* each component steps only in the runs that gave it its arguments
DctTransforms == block_size # 0 /\ qcoeffs = NoResult /\ NextDct
QuantTransforms == qcoeffs # NoResult /\ NextQuant
WavTransforms == block_size = 0 /\ qcoeffs = NoResult /\ method = "" /\ NextWav
DenoiseTransforms == method # "" /\ NextDenoise

NextTransforms == DctTransforms \/ QuantTransforms \/ WavTransforms \/ DenoiseTransforms

SpecTransforms == InitTransforms /\ [][NextTransforms]_vars

\* C21: no transform mutates the caller's sample grid: across every step of
\* block_dct, block_idct, quantize_dct, DWT2D and wavelet_denoise, whether the
\* call returns or fails, the array the caller passed (the image, the
\* coefficient grid given to quantize_dct, the coefficient grid given to
\* block_idct) holds the values it held before.
C21_InputsUntouched ==
    [][/\ image' = image
       /\ qcoeffs' = qcoeffs
       /\ op = "block_dct" => dctc' = dctc]_vars

\* wavelet_denoise has returned a grid that differs from the one it was given
C21_Witness ==
    op = "wavelet_denoise" /\ err = "none" /\ denoised # NoResult /\ denoised # image

\* C22: the list DWT2D returns is ordered from finest to coarsest: each
\* following index holds a level whose LH, HL and HH subbands are no larger
\* than those of the index before, so index 0 holds the largest subbands
\* (stated for grids that can be halved as many times as levels are asked).
C22_FinestFirst ==
    (op = "DWT2D" /\ err = "none"
        /\ level \in 1..FloorLog2(Min(Rows(image), Cols(image)))) =>
        \A k \in 1..(Len(pyr) - 1) :
            /\ Rows(pyr[k + 1].HH) <= Rows(pyr[k].HH)
            /\ Cols(pyr[k + 1].HH) <= Cols(pyr[k].HH)
            /\ Rows(pyr[k + 1].LH) <= Rows(pyr[k].LH)
            /\ Cols(pyr[k + 1].HL) <= Cols(pyr[k].HL)

\* the detail coefficients of a thresholded list that are zero, by position
ZeroedAt(cs) ==
    UNION {UNION {{<<kb[1], kb[2], i, j>> :
                      j \in {y \in 1..Cols(cs[kb[1]][kb[2]]) : cs[kb[1]][kb[2]][i][y] = 0}} :
                  i \in 1..Rows(cs[kb[1]][kb[2]])} :
           kb \in (2..Len(cs)) \X (1..3)}

\* C23: for a fixed pyramid and thresholds t1 >= t2, every coefficient that
\* soft thresholding zeroes at t2 is also zeroed at t1, so the pyramid
\* thresholded at t1 has at least as many zero coefficients.
C23_ThresholdOrdering ==
    (op = "threshold_coeffs" /\ mode = "soft") =>
        \A t2 \in ThresholdChoices(coeffs) :
            t2 <= threshold =>
                ZeroedAt(threshold_coeffs(coeffs, t2, "soft", {}).result) \subseteq ZeroedAt(tcoeffs)

\* a pyramid thresholded at t1 for which a smaller positive threshold zeroes
\* some coefficients, but fewer
C23_Witness ==
    /\ op = "threshold_coeffs"
    /\ mode = "soft"
    /\ \E t2 \in ThresholdChoices(coeffs) :
          /\ 0 < t2
          /\ t2 < threshold
          /\ ZeroedAt(threshold_coeffs(coeffs, t2, "soft", {}).result) # {}
          /\ ZeroedAt(threshold_coeffs(coeffs, t2, "soft", {}).result) # ZeroedAt(tcoeffs)

\* C24: for the same threshold and every coefficient c of the pyramid, the
\* magnitude of the soft-thresholded value is a number less than or equal to
\* the magnitude of the hard-thresholded value.
C24_SoftBelowHard ==
    op = "threshold_coeffs" =>
        \A low \in {{}, Ties(coeffs, threshold)} :
            LET soft == threshold_coeffs(coeffs, threshold, "soft", low).result
                hard == threshold_coeffs(coeffs, threshold, "hard", low).result
            IN  \A k \in 2..Len(coeffs), b \in 1..3 :
                    \A i \in 1..Rows(coeffs[k][b]), j \in 1..Cols(coeffs[k][b]) :
                        coeffs[k][b][i][j] # Unknown =>
                            /\ soft[k][b][i][j] # NaN
                            /\ Abs(soft[k][b][i][j]) <= Abs(hard[k][b][i][j])

\* C25: for a quality in [1, 100], quantize_dct maps the coefficient at
\* (i, j) to an integer nearest to c / Q[i mod block_size][j mod block_size]
\* in a grid of the input's shape, dequantize_dct multiplies each value by
\* the same table entry, and the round trip moves no coefficient by more
\* than half its divisor.
C25_QuantizeNearest ==
    (/\ op \in {"quantize_dct", "dequantize_dct"}
     /\ qresult # NoResult \/ op = "quantize_dct"
     /\ quality \in 1..100) =>
        /\ err = "none"
        /\ SameShape(qresult, qcoeffs)
        /\ \A i \in 1..Rows(qcoeffs), j \in 1..Cols(qcoeffs) :
              LET d == Q[((i - 1) % block_size) + 1][((j - 1) % block_size) + 1]
              IN  /\ 2 * Abs(qresult[i][j] * d - qcoeffs[i][j]) <= d
                  /\ op = "dequantize_dct" =>
                        /\ SameShape(dqresult, qcoeffs)
                        /\ dqresult[i][j] = qresult[i][j] * d
                        /\ 2 * Abs(dqresult[i][j] - qcoeffs[i][j]) <= d

\* C26: for every quality in [1, 100] both harness handlers soft-threshold
\* the pyramid of wavedec2 with (100 - quality) * k for the one constant
\* k = 0.3 (3 in tenths): the threshold is never negative, it is 0 at
\* quality 100, and the thresholded list is the soft thresholding of the
\* pyramid at that value.
C26_HarnessThreshold ==
    (op \in {"compare_dct_wavelet", "compare_sample_image"} /\ quality \in 1..100) =>
        /\ threshold = (100 - quality) * 3
        /\ threshold >= 0
        /\ quality = 100 => threshold = 0
        /\ mode = "soft"
        /\ err = "none" =>
              tcoeffs = threshold_coeffs(HarnessCoeffs(coeffs), threshold * Scale, mode, {}).result

\* the harness has shrunk a detail coefficient of a two-level pyramid to a
\* value other than zero
C26_Witness ==
    /\ op \in {"compare_dct_wavelet", "compare_sample_image"}
    /\ quality \in 1..99
    /\ err = "none"
    /\ wavelet = "haar"
    /\ level = 2
    /\ \E b \in 1..3 : /\ tcoeffs[3][b][1][1] \notin {0, NaN}
                        /\ tcoeffs[3][b][1][1] # Tenths(coeffs[3][b][1][1])

-----------------------------------------------------------------------------
(* dct.py: block_dct with block size 8 followed by quantize_dct.  The basis
   functions 0 and 4 of the 8-point orthonormal DCT are 1 / (2 sqrt 2) and
   (sqrt 2 / 4) * s with the signs s = + - - + + - - +; their products are
   1 / 8, so a block whose sample at (x, y) depends only on (s(x), s(y)) has
   the four coefficients (0,0), (4,0), (0,4), (4,4), all integers, and zeros
   elsewhere.  These are the blocks whose coefficients are carried. *)

\* 1 where the basis function 4 is negative at the offset d in 0..7
NegAt(d) == IF d % 4 \in {1, 2} THEN 1 ELSE 0

\* the samples <<(+,+), (+,-), (-,+), (-,-)>> of the 8 x 8 block at (bi, bj)
\* of the edge-padded grid when its samples follow the signs, no value
\* otherwise
PatternBlock(x, bi, bj) ==
    IF \A di \in 0..7, dj \in 0..7 :
          EdgeAt(x, bi + di, bj + dj) = EdgeAt(x, bi + NegAt(di), bj + NegAt(dj))
    THEN <<EdgeAt(x, bi, bj), EdgeAt(x, bi, bj + 1),
           EdgeAt(x, bi + 1, bj), EdgeAt(x, bi + 1, bj + 1)>>
    ELSE NoResult

\* DCT2D(block - 128) at the offset (di, dj) of the block of samples c:
\* 16 samples of each kind give 16 / 8 = 2 times their signed sum; the
\* block of 64 samples 0 has the coefficient -1024, the largest magnitude
\* samples in [0, 255] can give
BlockCoefficient(c, di, dj) ==
    IF c = NoResult THEN Unknown
    ELSE IF di = 0 /\ dj = 0 THEN 2 * (c[1] + c[2] + c[3] + c[4]) - 1024
    ELSE IF di = 4 /\ dj = 0 THEN 2 * (c[1] + c[2] - c[3] - c[4])
    ELSE IF di = 0 /\ dj = 4 THEN 2 * (c[1] - c[2] + c[3] - c[4])
    ELSE IF di = 4 /\ dj = 4 THEN 2 * (c[1] - c[2] - c[3] + c[4])
    ELSE 0

\* block_dct(image, 8): every block of the edge-padded grid is transformed
\* in turn, and the result is cropped to the shape of the image
block_dct8(img) ==
    CHOOSE result \in
        {[i \in 1..Rows(img) |-> [j \in 1..Cols(img) |->
             BlockCoefficient(blocks[(i - 1) \div 8][(j - 1) \div 8], (i - 1) % 8, (j - 1) % 8)]] :
           blocks \in {[a \in 0..((Rows(img) - 1) \div 8) |->
                          [b \in 0..((Cols(img) - 1) \div 8) |->
                              PatternBlock(img, 8 * a + 1, 8 * b + 1)]]}} : TRUE

\* what decides the float DCT2D returns at one position: the block - 128 up
\* to its sign (the transform of the negated block is the negated
\* transform) and the position in the block
BlockKey(img, i, j) ==
    LET c == PatternBlock(img, BlockOrigin(i, 8), BlockOrigin(j, 8))
        d == [k \in 1..4 |-> c[k] - 128]
        lead == IF d[1] # 0 THEN d[1] ELSE IF d[2] # 0 THEN d[2]
                ELSE IF d[3] # 0 THEN d[3] ELSE d[4]
    IN  <<IF lead < 0 THEN [k \in 1..4 |-> -d[k]] ELSE d,
          i - BlockOrigin(i, 8), j - BlockOrigin(j, 8)>>

\* the ways the exact halves of block / Q can fall: every set of the floats
\* whose carried quotient is an exact half may lie above it in magnitude
AwayKeys(img, grid, tab) ==
    SUBSET {BlockKey(img, p[1], p[2]) :
              p \in {q \in (1..Rows(grid)) \X (1..Cols(grid)) :
                       /\ grid[q[1]][q[2]] # Unknown
                       /\ (2 * grid[q[1]][q[2]]) % (2 * QAt(tab, q[1], q[2]))
                             = QAt(tab, q[1], q[2])}}

\* np.round(block / Q) of quantize_dct before the cast, on the floats
\* block_dct returned for img
QuantizeRounded(img, grid, tab, away) ==
    [i \in 1..Rows(grid) |-> [j \in 1..Cols(grid) |->
        IF grid[i][j] = Unknown THEN Unknown
        ELSE RoundNear(grid[i][j], QAt(tab, i, j), BlockKey(img, i, j) \in away)]]

\* result[:h, :w].astype(np.int16) of a grid of rounded quotients
CastInt16(r) ==
    [i \in 1..Rows(r) |-> [j \in 1..Cols(r) |->
        IF r[i][j] = Unknown THEN Unknown ELSE ToInt16(r[i][j])]]

\* the 8 x 8 grid of the samples c = <<(+,+), (+,-), (-,+), (-,-)>>
PatternImage(c) ==
    [i \in 1..8 |-> [j \in 1..8 |-> c[2 * NegAt(i - 1) + NegAt(j - 1) + 1]]]

\* the samples of the blocks of four samples
PatternSamples == {0, 127, 255}

\* the grids passed in: blocks of equal samples in one and two blocks and
\* cropped shapes, blocks of two samples in columns, rows and squares, and
\* blocks of four samples
PipelineImages ==
    {FlatImage(sh[1], sh[2], v, v2) :
        sh \in {<<1, 1>>, <<2, 3>>, <<1, 9>>}, v \in CodecSamples, v2 \in CodecSamples}
    \cup {PatternImage(<<v, v2, v, v2>>) : v \in CodecSamples, v2 \in CodecSamples}
    \cup {PatternImage(<<v, v, v2, v2>>) : v \in CodecSamples, v2 \in CodecSamples}
    \cup {PatternImage(<<v, v2, v2, v>>) : v \in CodecSamples, v2 \in CodecSamples}
    \cup {PatternImage(<<a, b, c, d>>) :
             a \in PatternSamples, b \in PatternSamples, c \in PatternSamples, d \in PatternSamples}

InitPipeline ==
    /\ op = "idle"
    /\ err = "none"
    /\ keep_levels = 0
    /\ image \in PipelineImages
    /\ quality \in Qualities
    /\ block_size = 8
    /\ qcoeffs = NoResult
    /\ Q = NoResult
    /\ qresult = NoResult
    /\ dqresult = NoResult
    /\ wavelet = ""
    /\ level = 0
    /\ pyr = NoResult
    /\ coeffs = NoResult
    /\ threshold = 0
    /\ mode = ""
    /\ tcoeffs = NoResult
    /\ sigma = NoResult
    /\ recon = NoResult
    /\ dctc = NoResult
    /\ DenoiseIdle
    /\ MetricsIdle

\* coeffs = block_dct(image, 8)
BlockDct8Step ==
    /\ op = "idle"
    /\ dctc' = block_dct8(image)
    /\ op' = "block_dct"
    /\ UNCHANGED <<rvars, err, qvars, wvars, nvars, mvars>>

\* quantize_dct(coeffs, quality, 8) on the grid block_dct returned: the
\* division by quality = 0 raises, otherwise the table is built, the
\* quotients are rounded and the grid is cast
QuantizeDctStep ==
    /\ op = "block_dct"
    /\ IF quality = 0
       THEN /\ err' = "ZeroDivisionError"
            /\ Q' = NoResult
            /\ qresult' = NoResult
       ELSE \E tab \in {QuantTable(quality)} :
               \E away \in AwayKeys(image, dctc, tab) :
                  \E r \in {QuantizeRounded(image, dctc, tab, away)} :
                     /\ err' = "none"
                     /\ Q' = tab
                     /\ qresult' = CastInt16(r)
    /\ qcoeffs' = dctc
    /\ op' = "quantize_dct"
    /\ UNCHANGED <<rvars, quality, block_size, dqresult, wvars, dvars, nvars, mvars>>

NextPipeline == BlockDct8Step \/ QuantizeDctStep

SpecPipeline == InitPipeline /\ [][NextPipeline]_vars

\* C27: the cast of quantize_dct to 16-bit signed integers changes no value:
\* for a grid block_dct produced with block size 8 from samples in [0, 255]
\* and a quality in [1, 100], every rounded quotient lies in
\* [-32768, 32767], whichever way its float is rounded, and the grid
\* returned is a grid of rounded quotients, none of them wrapped.
C27_CastKeepsValues ==
    (op = "quantize_dct" /\ quality \in 1..100 /\ InRange(image)) =>
        /\ err = "none"
        /\ \A away \in AwayKeys(image, dctc, Q) :
              \A i \in 1..Rows(dctc), j \in 1..Cols(dctc) :
                  QuantizeRounded(image, dctc, Q, away)[i][j] \in (-32768)..32767
        /\ \E away \in AwayKeys(image, dctc, Q) :
              qresult = QuantizeRounded(image, dctc, Q, away)

\* a block of squares of samples 255 and 0: its coefficient 1020 at (4, 4)
\* is divided by 1 at quality 100, next to the coefficient -4 at (0, 0)
C27_Witness ==
    /\ op = "quantize_dct"
    /\ quality = 100
    /\ Rows(image) = 8
    /\ Cols(image) = 8
    /\ image[1][1] = 255
    /\ image[1][2] = 0
    /\ dctc[1][1] = -4
    /\ dctc[5][5] = 1020
    /\ qresult[5][5] = 1020
    /\ qresult[1][1] = -4

-----
(* The other denoisers: backend/main.py and app/main.py *)

\* sigma and the automatic threshold as the handlers compute them: the
\* median of |coeffs[-1][2]| of the requested decomposition over 0.6745, and
\* sigma * sqrt(2 * log(size)); [err, sigma, threshold]
HandlerEstimate(img, w, lev) ==
    LET r == wavedec2(img, w, lev)
    IN  IF r.err # "none" THEN [err |-> r.err, sigma |-> NoResult, threshold |-> NoResult]
        ELSE LET f == FinestHH(r.coeffs)
             IN  IF f.err # "none"
                 THEN [err |-> f.err, sigma |-> NoResult, threshold |-> NoResult]
                 ELSE [err |-> "none", sigma |-> NoiseSigma(f.hh),
                       threshold |-> [sigma |-> NoiseSigma(f.hh),
                                      n |-> Rows(img) * Cols(img), tenths |-> 10]]

\* denoise_image of the backend, up to its threshold
denoise_image(img, w, lev) == HandlerEstimate(img, w, lev)

\* denoise_sample_image of the backend, up to its threshold
denoise_sample_image(img, w, lev) == HandlerEstimate(img, w, lev)

\* wavelet_denoise of the app, up to its threshold
app_wavelet_denoise(img, w, lev) == HandlerEstimate(img, w, lev)

\* C28: for the same noisy grid, wavelet, levels and mode, wavelet_denoise of
\* the core module, the denoise endpoints of the backend and wavelet_denoise
\* of the app compute the same sigma and the same automatic threshold, for
\* every wavelet (stated for level counts of 1 and more, the universal
\* method, and a grid whose finest HH does not have the median 0).
C28_DenoisersAgree ==
    (/\ op = "wavelet_denoise"
     /\ err = "none"
     /\ level >= 1
     /\ method = "universal"
     /\ DOMAIN thr # {}
     /\ denoise_image(image, wavelet, level).sigma[1] # 0) =>
        /\ sigma = denoise_image(image, wavelet, level).sigma
        /\ thr = denoise_image(image, wavelet, level).threshold
        /\ sigma = denoise_sample_image(image, wavelet, level).sigma
        /\ thr = denoise_sample_image(image, wavelet, level).threshold
        /\ sigma = app_wavelet_denoise(image, wavelet, level).sigma
        /\ thr = app_wavelet_denoise(image, wavelet, level).threshold

-----------------------------------------------------------------------------
(* backend/main.py: reconstruct_image *)

\* np.zeros_like(c)
ZerosLike(m) == [i \in 1..Rows(m) |-> [j \in 1..Cols(m) |-> 0]]

\* reconstruct_image(file, wavelet, levels, keep_levels): the list of
\* wavedec2, the list after coeffs[i] of i = 1 .. levels - keep_levels were
\* replaced by zeros, and the reconstruction cropped to the shape of the
\* upload; an index i past the end of the list raises IndexError
reconstruct_image(img, w, lev, keep) ==
    LET r == wavedec2(img, w, lev)
    IN  IF r.err # "none"
        THEN [err |-> r.err, coeffs |-> NoResult, zeroed |-> NoResult, result |-> NoResult]
        ELSE IF keep < lev /\ lev - keep > Len(r.coeffs) - 1
        THEN [err |-> "IndexError", coeffs |-> r.coeffs, zeroed |-> NoResult,
              result |-> NoResult]
        ELSE LET z == [k \in 1..Len(r.coeffs) |->
                         IF keep < lev /\ (k - 1) \in 1..(lev - keep)
                         THEN <<ZerosLike(r.coeffs[k][1]), ZerosLike(r.coeffs[k][2]),
                                ZerosLike(r.coeffs[k][3])>>
                         ELSE r.coeffs[k]]
                 rec == waverec2(z, w)
             IN  [err |-> rec.err, coeffs |-> r.coeffs, zeroed |-> z,
                  result |-> IF rec.err = "none"
                             THEN CropTo(rec.result, Rows(img), Cols(img))
                             ELSE NoResult]

\* the uploads of the reconstruct handler
ReconImages ==
    {ImageOf(h, w, s) : h \in (MaxDim - 1)..MaxDim, w \in (MaxDim - 1)..MaxDim,
                        s \in 0..MaxImageSeed}

KeepLevels == (-1)..(MaxLevel + 1)

InitRecon ==
    /\ op = "idle"
    /\ err = "none"
    /\ image \in ReconImages
    /\ wavelet \in {"haar", "db4", "sym4"}
    /\ level \in Levels
    /\ keep_levels \in KeepLevels
    /\ pyr = NoResult
    /\ coeffs = NoResult
    /\ threshold = 0
    /\ mode = ""
    /\ tcoeffs = NoResult
    /\ sigma = NoResult
    /\ recon = NoResult
    /\ QuantIdle
    /\ dctc = NoResult
    /\ DenoiseIdle
    /\ MetricsIdle

\* a request to /api/reconstruct: coeffs is the list of wavedec2, tcoeffs the
\* list passed to waverec2
ReconstructImageStep ==
    /\ op = "idle"
    /\ LET r == reconstruct_image(image, wavelet, level, keep_levels)
       IN  /\ err' = r.err
           /\ coeffs' = r.coeffs
           /\ tcoeffs' = r.zeroed
           /\ recon' = r.result
    /\ op' = "reconstruct_image"
    /\ UNCHANGED <<rvars, image, wavelet, level, pyr, threshold, mode, sigma, qvars, dvars,
                   nvars, mvars>>

NextRecon == ReconstructImageStep

SpecRecon == InitRecon /\ [][NextRecon]_vars

\* C29: reconstruct_image with 0 <= keep_levels < levels replaces by zeros
\* exactly the levels - keep_levels finest detail levels (the last entries
\* of the list) and leaves the final LL and the keep_levels coarsest detail
\* levels as they were; with keep_levels >= levels no coefficient changes
\* (stated for the wavelet whose coefficients the model carries).
C29_FinestLevelsDropped ==
    (/\ op = "reconstruct_image"
     /\ err = "none"
     /\ wavelet = "haar"
     /\ level >= 1
     /\ keep_levels >= 0) =>
        /\ Len(tcoeffs) = Len(coeffs)
        /\ tcoeffs[1] = coeffs[1]
        /\ \A k \in 2..Len(coeffs) :
              IF keep_levels < level /\ k - 1 > keep_levels
              THEN \A b \in 1..3 : tcoeffs[k][b] = ZerosLike(coeffs[k][b])
              ELSE tcoeffs[k] = coeffs[k]

\* C30: for every level count L >= 1, DWT2D returns exactly L entries, the
\* entry at index 0 carries the final LL and every other entry has
\* LL = None, and IDWT2D rebuilds from that list the coefficient list the
\* decomposition produced: the same LL followed by the same (LH, HL, HH)
\* triples in the same order.
C30_ListRebuilt ==
    (op \in {"DWT2D", "IDWT2D"} /\ err = "none" /\ level >= 1) =>
        /\ Len(pyr) = level
        /\ pyr[1].LL # None
        /\ \A k \in 2..Len(pyr) : pyr[k].LL = None
        /\ pywt_coeffs(pyr) = wavedec2(image, wavelet, level).coeffs

\* IDWT2D has rebuilt a two-level list whose detail levels differ
C30_Witness ==
    /\ op = "IDWT2D"
    /\ err = "none"
    /\ wavelet = "haar"
    /\ level = 2
    /\ Len(pyr) = 2
    /\ pyr[1].HH # pyr[2].HH
    /\ pywt_coeffs(pyr)[2] # pywt_coeffs(pyr)[3]

=============================================================================
